---- MODULE Spec2Model ----
(***************************************************************************)
(* Customify: the OAuth2 token lifecycle kept in the Flask session         *)
(* (spotify.py and spotify_api.py) and the /api/recommendations pipeline   *)
(* (app.py over spotify_api.get_recommendations).                          *)
(*                                                                         *)
(* A session key that is not in the session is Absent (the empty tuple);   *)
(* a key that is present with value v is <<v>>. Python's None is the       *)
(* number 0; tokens, refresh tokens and instants are positive numbers.     *)
(***************************************************************************)
EXTENDS Integers, Sequences, FiniteSets, TLC

\* ------------------------------------------------------------------ bounds
MaxTime == 3
MaxLifetime == 2
MaxTokens == 2
MaxRefresh == 2

\* ------------------------------------------------------------- value model
None == 0
Absent == << >>
Some(v) == << v >>

Has(s, k) == s[k] # Absent
\* session.get(k): the value, or None when the key is not in the session
Get(s, k) == IF s[k] = Absent THEN None ELSE s[k][1]
Pop(s, k) == [s EXCEPT ![k] = Absent]
Truthy(v) == v # None

AccessTokens == 1..MaxTokens
RefreshTokens == 1..MaxRefresh
Lifetimes == 1..MaxLifetime

\* ---------------------------------------------------- the token endpoint
\* What requests.post(SPOTIFY_TOKEN_URL) can come back with: a transport
\* failure (an exception, no response), or a response with a status, a body
\* that parses as JSON or does not, and for a 200 the issued token, its
\* lifetime and possibly a (rotated) refresh token.
NoResponse ==
    [kind |-> "none", status |-> 0, json |-> FALSE, access_token |-> None,
     expires_in |-> 0, refresh_token |-> Absent]

TransportFailure == [NoResponse EXCEPT !.kind = "transport"]

Rejections ==
    { [NoResponse EXCEPT !.kind = "http", !.status = 400, !.json = j] : j \in BOOLEAN }

Grants ==
    { [kind |-> "http", status |-> 200, json |-> TRUE, access_token |-> a,
       expires_in |-> l, refresh_token |-> r] :
        a \in AccessTokens, l \in Lifetimes,
        r \in {Absent} \cup {Some(x) : x \in RefreshTokens} }

Garbled200 == [NoResponse EXCEPT !.kind = "http", !.status = 200]

TokenResponses == {TransportFailure, Garbled200} \cup Rejections \cup Grants

\* What the token endpoint can answer to a refresh request sent from session
\* s: it grants nothing to a request that carries no refresh token.
RefreshAnswers(s, responses) ==
    IF s.spotify_refresh_token # Absent /\ s.spotify_refresh_token[1] # None
    THEN responses
    ELSE responses \ Grants

\* response_data.get('refresh_token')
ResponseRefreshToken(resp) ==
    IF resp.refresh_token = Absent THEN None ELSE resp.refresh_token[1]

\* --------------------------------------------------------------- variables
VARIABLES
    session,    \* the Flask session: the token keys, the login state key,
                \* the track lists and the user id
    now,        \* time.time()
    last,       \* the last operation: its inputs, its result, what it sent
    req,        \* the locals of the running request
    rec         \* the locals of the running get_recommendations call

vars == << session, now, last, req, rec >>

EmptySession ==
    [spotify_token |-> Absent, spotify_refresh_token |-> Absent,
     spotify_token_expires_in |-> Absent, oauth_state |-> Absent,
     top_track_ids |-> Absent, recommended_tracks |-> Absent,
     user_id |-> Absent, cached_top_tracks |-> Absent,
     cached_top_tracks_time |-> Absent]

Result(s, ret, posts) == [session |-> s, ret |-> ret, posts |-> posts]

\* ------------------------------------------------------------- spotify.py
\* a clear that forgets the access token
clear_keeps_token(s) ==
    Pop(Pop(s, "spotify_refresh_token"), "spotify_token_expires_in")

clear_spotify_tokens(s) ==
    Pop(Pop(Pop(s, "spotify_token"), "spotify_refresh_token"),
        "spotify_token_expires_in")

\* an expiry check that counts the expiry instant itself as expired
is_token_expired_inclusive(s, t) ==
    LET expires_at == Get(s, "spotify_token_expires_in")
    IN  Truthy(expires_at) /\ t >= expires_at

is_token_expired(s, t) ==
    LET expires_at == Get(s, "spotify_token_expires_in")
    IN  Truthy(expires_at) /\ t > expires_at

\* a refresh that stores the new expiry and forgets the new access token
refresh_keeps_old_token(s, t, resp) ==
    LET refresh_token == Get(s, "spotify_refresh_token") IN
    IF ~Truthy(refresh_token)
    THEN Result(clear_spotify_tokens(s), "redirect", 0)
    ELSE IF resp.kind = "transport" \/ ~resp.json
    THEN Result(s, "raise", 1)
    ELSE IF resp.status # 200
    THEN Result(clear_spotify_tokens(s), "False", 1)
    ELSE Result([s EXCEPT !.spotify_token_expires_in = Some(t + resp.expires_in)],
                "True", 1)

\* ret: "True", "False", "redirect" (a Response object, which is truthy) or
\* "raise" (requests.post or response.json() raised)
refresh_spotify_token(s, t, resp) ==
    LET refresh_token == Get(s, "spotify_refresh_token") IN
    IF ~Truthy(refresh_token)
    THEN Result(clear_spotify_tokens(s), "redirect", 0)
    ELSE IF resp.kind = "transport" \/ ~resp.json
    THEN Result(s, "raise", 1)
    ELSE IF resp.status # 200
    THEN Result(clear_spotify_tokens(s), "False", 1)
    ELSE Result([s EXCEPT !.spotify_token = Some(resp.access_token),
                          !.spotify_token_expires_in = Some(t + resp.expires_in)],
                "True", 1)

\* ret: "none" (None), "headers" (bearer is the value put after "Bearer ",
\* None when session.get found nothing) or "raise"
Headers(s, posts) ==
    [session |-> s, ret |-> "headers", bearer |-> Get(s, "spotify_token"),
     posts |-> posts]

NoHeaders(s, ret, posts) ==
    [session |-> s, ret |-> ret, bearer |-> None, posts |-> posts]

get_headers(s, t, resp) ==
    IF ~Has(s, "spotify_token")
    THEN NoHeaders(s, "none", 0)
    ELSE IF is_token_expired(s, t)
    THEN LET r == refresh_spotify_token(s, t, resp) IN
         IF r.ret = "raise"
         THEN NoHeaders(r.session, "raise", r.posts)
         ELSE IF r.ret = "False"
         THEN NoHeaders(clear_spotify_tokens(r.session), "none", r.posts)
         ELSE Headers(r.session, r.posts)
    ELSE Headers(s, 0)

\* --------------------------------------------------------- spotify_api.py
api_token_expired(s, t) ==
    Has(s, "spotify_token_expires_in") /\ t > Get(s, "spotify_token_expires_in")

\* an except branch that drops the access token and its expiry
api_refresh_raised_dropping(s) ==
    NoHeaders(Pop(Pop(s, "spotify_token"), "spotify_token_expires_in"), "none", 1)

\* the except branch of the refresh in spotify_api.get_headers: requests.post
\* or response.json() raised
api_refresh_raised(s) == NoHeaders(s, "none", 1)

\* a get_headers that drops the whole token state when it finds no token
api_get_headers_clearing(s, t, resp) ==
    IF ~Has(s, "spotify_token")
    THEN NoHeaders(clear_spotify_tokens(s), "none", 0)
    ELSE IF api_token_expired(s, t)
    THEN IF ~Has(s, "spotify_refresh_token")
         THEN NoHeaders(s, "none", 0)
         ELSE IF resp.kind = "transport"
         THEN api_refresh_raised(s)
         ELSE IF resp.status # 200
         THEN NoHeaders(Pop(Pop(s, "spotify_token"), "spotify_token_expires_in"),
                        "none", 1)
         ELSE IF ~resp.json
         THEN api_refresh_raised(s)
         ELSE LET s1 == [s EXCEPT !.spotify_token = Some(resp.access_token),
                                  !.spotify_token_expires_in =
                                      Some(t + resp.expires_in)]
                  s2 == IF resp.refresh_token # Absent
                        THEN [s1 EXCEPT !.spotify_refresh_token = resp.refresh_token]
                        ELSE s1
              IN  Headers(s2, 1)
    ELSE Headers(s, 0)

api_get_headers(s, t, resp) ==
    IF ~Has(s, "spotify_token")
    THEN NoHeaders(s, "none", 0)
    ELSE IF api_token_expired(s, t)
    THEN IF ~Has(s, "spotify_refresh_token")
         THEN NoHeaders(s, "none", 0)
         ELSE IF resp.kind = "transport"
         THEN api_refresh_raised(s)
         ELSE IF resp.status # 200
         THEN NoHeaders(Pop(Pop(s, "spotify_token"), "spotify_token_expires_in"),
                        "none", 1)
         ELSE IF ~resp.json
         THEN api_refresh_raised(s)
         ELSE LET s1 == [s EXCEPT !.spotify_token = Some(resp.access_token),
                                  !.spotify_token_expires_in =
                                      Some(t + resp.expires_in)]
                  s2 == IF resp.refresh_token # Absent
                        THEN [s1 EXCEPT !.spotify_refresh_token = resp.refresh_token]
                        ELSE s1
              IN  Headers(s2, 1)
    ELSE Headers(s, 0)

\* the stand-alone refresh of spotify_api.py; every failure is an exception
api_refresh_spotify_token(s, t, resp) ==
    LET refresh_token == Get(s, "spotify_refresh_token") IN
    IF ~Truthy(refresh_token)
    THEN Result(s, "raise", 0)
    ELSE IF resp.kind = "transport" \/ ~resp.json \/ resp.status # 200
    THEN Result(s, "raise", 1)
    ELSE Result([s EXCEPT !.spotify_token = Some(resp.access_token),
                          !.spotify_token_expires_in = Some(t + resp.expires_in)],
                "True", 1)

\* a callback that stores the access token and its expiry and leaves the
\* refresh token as it was
callback_keeping_refresh_token(s, t, code, resp) ==
    IF ~Truthy(code)
    THEN Result(s, "redirect_profile", 0)
    ELSE IF resp.kind = "transport" \/ ~resp.json
    THEN Result(s, "raise", 1)
    ELSE IF resp.status # 200
    THEN Result(s, "redirect_profile", 1)
    ELSE Result([s EXCEPT !.spotify_token = Some(resp.access_token),
                          !.spotify_token_expires_in = Some(t + resp.expires_in)],
                "redirect_recommendations", 1)

\* The OAuth callback. code: the request's code argument (None when the
\* request carries none); state: the request's state argument.
callback(s, t, code, resp) ==
    IF ~Truthy(code)
    THEN Result(s, "redirect_profile", 0)
    ELSE IF resp.kind = "transport" \/ ~resp.json
    THEN Result(s, "raise", 1)
    ELSE IF resp.status # 200
    THEN Result(s, "redirect_profile", 1)
    ELSE Result([s EXCEPT !.spotify_token = Some(resp.access_token),
                          !.spotify_refresh_token = Some(ResponseRefreshToken(resp)),
                          !.spotify_token_expires_in = Some(t + resp.expires_in)],
                "redirect_recommendations", 1)

\* login_spotify builds the authorize URL from response_type, redirect_uri,
\* scope, client_id and show_dialog: it sends no state and stores none.
login_spotify(s) == Result(s, "redirect_authorize", 0)


\* ------------------------------------------- the provider's REST endpoints
MaxTrack == 3
MaxArtist == 1
MaxAlbums == 1
FarExpiry == 1000

Tracks == 1..MaxTrack
Artists == 1..MaxArtist

\* What a requests.get can come back with: 200, status 429, another status,
\* or an exception, whose text may or may not contain "429".
GetOutcomes == {"ok", "status", "status429", "raise", "raise429"}
Raises == {"raise", "raise429"}
NotOk == {"status", "status429"}

\* the provider accepts the request: it answers 200 or 201 only to a request
\* that carries a token
Accepted(h, o) == o = "ok" /\ h.ret = "headers" /\ h.bearer # None

\* ---------------------------------------------------------- list helpers
Min(a, b) == IF a <= b THEN a ELSE b
Range(seq) == {seq[j] : j \in 1..Len(seq)}
Take(seq, n) == SubSeq(seq, 1, Min(n, Len(seq)))

\* [tid for tid in all_track_ids if tid not in track_ids]
FilterOut(seq, ids) ==
    LET Keep(x) == x \notin Range(ids) IN SelectSeq(seq, Keep)

\* the members of a set of numbers, smallest first
Ascending(S) ==
    [j \in 1..Cardinality(S) |->
        CHOOSE x \in S : Cardinality({y \in S : y < x}) = j - 1]

Reversed(seq) == [j \in 1..Len(seq) |-> seq[Len(seq) + 1 - j]]

\* random.sample draws k different positions of a list of n entries, in any
\* order: every choice of k positions is taken, in the list's order and in
\* the opposite one
SamplePositions(k, n) ==
    LET chosen == {S \in SUBSET (1..n) : Cardinality(S) = k}
    IN  {Ascending(S) : S \in chosen} \cup {Reversed(Ascending(S)) : S \in chosen}

\* random.sample(all_track_ids, 10) when there are more than 10, else the list
SampleSize == 10
SelectedTrackIds(all_track_ids) ==
    IF Len(all_track_ids) > SampleSize
    THEN {[j \in 1..SampleSize |-> all_track_ids[p[j]]] :
              p \in SamplePositions(SampleSize, Len(all_track_ids))}
    ELSE {all_track_ids}

\* the de-duplication loop of get_recommendations_api: first occurrence kept
RECURSIVE UniqueFrom(_, _)
UniqueFrom(seq, seen_ids) ==
    IF seq = << >> THEN << >>
    ELSE IF Head(seq) \in seen_ids
    THEN UniqueFrom(Tail(seq), seen_ids)
    ELSE << Head(seq) >> \o UniqueFrom(Tail(seq), seen_ids \cup {Head(seq)})

unique_recommendations(all_recommendations) == UniqueFrom(all_recommendations, {})

\* --------------------------------------------- program constants (app.py)
max_retries == 3
initial_retry_delay == 2
pacing_delay == 2
max_seed_tracks == 3
per_seed_limit == 4
response_limit == 10
top_tracks_kept == 5

\* a response that carries every unique track, however many
recommendations_data_uncapped(all_recommendations) ==
    unique_recommendations(all_recommendations)

\* the ids of the tracks the response carries
recommendations_data(all_recommendations) ==
    Take(unique_recommendations(all_recommendations), response_limit)

\* track_ids[:3] if len(track_ids) >= 3 else track_ids
seed_tracks_of(track_ids) ==
    IF Len(track_ids) >= max_seed_tracks THEN Take(track_ids, max_seed_tracks)
    ELSE track_ids

\* ----------------------------------------------------- locals of the calls
\* Next to the locals of get_recommendations, what the call did: whether it
\* got headers and with how many token requests, the track ids and the artist
\* ids it asked the provider about, whether a 429 came back, and where an
\* exception left it.
IdleRec ==
    [pc |-> "idle", track_ids |-> << >>, k |-> 0, processed_artists |-> {},
     all_track_ids |-> << >>, albums_left |-> 0, ret |-> << >>, raised |-> "no",
     auth |-> TRUE, posts |-> 0, artist_id |-> 0, fetched |-> << >>,
     albums_calls |-> << >>, saw429 |-> FALSE, raised_at |-> "none"]

\* Next to the locals of get_recommendations_api, what the request did: the
\* sleeps, the attempts of the current seed, the batches it merged, for each
\* seed the artist ids whose albums were listed, whether a get_recommendations
\* call failed to get headers, whether one got them, and whether a
\* get_recommendations call or a token request followed a failed get_headers.
IdleReq ==
    [pc |-> "idle", seed_tracks |-> << >>, i |-> 0, attempt |-> 0,
     retry_delay |-> initial_retry_delay, all_recommendations |-> << >>,
     waits |-> << >>, status |-> 0, body |-> << >>,
     attempts |-> << >>, batches |-> << >>,
     explored |-> [j \in 1..max_seed_tracks |-> {}],
     auth_failed |-> FALSE, authenticated |-> FALSE,
     called_after_auth_failure |-> FALSE,
     posted_after_auth_failure |-> FALSE]

\* the user's top tracks as the provider lists them: distinct ids, here
\* numbered in list order
TopTrackLists == {[j \in 1..n |-> j] : n \in 0..MaxTrack}

\* ------------------------------------ spotify_api.get_recommendations steps
\* the call starts: get_headers, then the loop over track_ids
start_get_recommendations(track_ids, h) ==
    LET r == [IdleRec EXCEPT !.track_ids = track_ids, !.posts = h.posts,
                             !.auth = (h.ret = "headers")]
    IN  IF h.ret # "headers"
        THEN [r EXCEPT !.pc = "done"]
        ELSE IF track_ids = << >>
        THEN [r EXCEPT !.pc = "batch"]
        ELSE [r EXCEPT !.pc = "track", !.k = 1]

\* continue: on to the next track id, or past the loop
next_track(r) ==
    IF r.k + 1 > Len(r.track_ids)
    THEN [r EXCEPT !.pc = "batch", !.albums_left = 0]
    ELSE [r EXCEPT !.pc = "track", !.k = @ + 1, !.albums_left = 0]

next_album(r) ==
    IF r.albums_left = 1 THEN next_track(r)
    ELSE [r EXCEPT !.albums_left = @ - 1]

raise_in(r, o) ==
    [r EXCEPT !.pc = "done", !.raised = o, !.ret = << >>, !.raised_at = r.pc]

\* the request went out and o came back
asked(r, o) == [r EXCEPT !.saw429 = @ \/ o = "status429"]

\* GET /tracks/{track_id}; artist_id is the track's first artist
fetch_track(r, o, artist_id) ==
    LET r1 == [asked(r, o) EXCEPT !.fetched = Append(@, r.track_ids[r.k])]
    IN  IF o \in Raises THEN raise_in(r1, o)
        ELSE IF o \in NotOk THEN next_track(r1)
        ELSE IF artist_id \in r.processed_artists THEN next_track(r1)
        ELSE [r1 EXCEPT !.processed_artists = @ \cup {artist_id},
                        !.artist_id = artist_id, !.pc = "albums"]

\* GET /artists/{artist_id}/albums; n is the number of items listed
fetch_artist_albums(r, o, n) ==
    LET r1 == [asked(r, o) EXCEPT !.albums_calls = Append(@, r.artist_id)]
    IN  IF o \in Raises THEN raise_in(r1, o)
        ELSE IF o \in NotOk \/ n = 0 THEN next_track(r1)
        ELSE [r1 EXCEPT !.pc = "album_tracks", !.albums_left = n]

\* a fetch that leaves the artist at the first album without tracks
fetch_album_tracks_until_empty(r, o, items) ==
    LET r1 == asked(r, o)
    IN  IF o \in Raises THEN {raise_in(r1, o)}
        ELSE IF o \in NotOk THEN {next_album(r1)}
        ELSE IF items = {} THEN {next_track(r1)}
        ELSE {next_album([r1 EXCEPT !.all_track_ids = Append(@, t)]) : t \in items}

\* GET /albums/{id}/tracks; items are the album's tracks; random.choice
\* picks any of them
fetch_album_tracks(r, o, items) ==
    LET r1 == asked(r, o)
    IN  IF o \in Raises THEN {raise_in(r1, o)}
        ELSE IF o \in NotOk \/ items = {} THEN {next_album(r1)}
        ELSE {next_album([r1 EXCEPT !.all_track_ids = Append(@, t)]) : t \in items}

\* a selection that keeps the ids of track_ids
selected_track_ids_unfiltered(r) ==
    SelectedTrackIds(r.all_track_ids)

\* the ids asked of GET /tracks?ids=...
selected_track_ids(r) ==
    SelectedTrackIds(FilterOut(r.all_track_ids, r.track_ids))

\* GET /tracks?ids=...&market=US, which answers with the tracks asked for
fetch_selected_tracks(r, o, selected) ==
    LET r1 == asked(r, o)
    IN  IF o \in Raises THEN raise_in(r1, o)
        ELSE IF o \in NotOk THEN [r1 EXCEPT !.pc = "done", !.ret = << >>]
        ELSE [r1 EXCEPT !.pc = "done", !.ret = selected]

\* --------------------------------------- app.get_recommendations_api steps
next_seed(q) == [q EXCEPT !.pc = "seed", !.i = @ + 1, !.attempt = 0]

respond(q, status, body) == [q EXCEPT !.pc = "done", !.status = status, !.body = body]

\* time.sleep(retry_delay) of the attempt just handled, 0 when none
backoff_slept(q, r) ==
    IF r.raised = "raise429" /\ q.attempt < max_retries - 1
    THEN q.retry_delay ELSE 0

\* get_recommendations([seed_track]) is called; h is what its get_headers did
enter_call(q, h) ==
    [q EXCEPT !.pc = "wait",
              !.auth_failed = @ \/ h.ret # "headers",
              !.authenticated = @ \/ h.ret = "headers",
              !.called_after_auth_failure = @ \/ q.auth_failed,
              !.posted_after_auth_failure = @ \/ (q.auth_failed /\ h.posts > 0)]

\* the attempt as the request saw it
attempt_record(q, r) ==
    [auth |-> r.auth, signal429 |-> r.saw429, raised |-> r.raised,
     ret |-> r.ret, slept |-> backoff_slept(q, r)]

\* a merge that takes the whole batch of a seed
extend_with_whole_batch(all_recommendations, track_recommendations) ==
    all_recommendations \o track_recommendations

\* all_recommendations.extend(track_recommendations[:4])
extend_recommendations(all_recommendations, track_recommendations) ==
    all_recommendations \o Take(track_recommendations, per_seed_limit)

\* a retry loop that allows one more pass after an empty result
after_attempt_once_more(q, r) ==
    LET q1 == [q EXCEPT !.attempts = Append(@, attempt_record(q, r)),
                        !.explored[q.i + 1] = @ \cup Range(r.albums_calls)]
    IN  IF r.raised = "no"
        THEN IF r.ret # << >>
             THEN next_seed([q1 EXCEPT !.all_recommendations =
                                           extend_recommendations(@, r.ret),
                                       !.batches = Append(@, r.ret)])
             ELSE IF q.attempt < max_retries
             THEN [q1 EXCEPT !.pc = "call", !.attempt = @ + 1]
             ELSE next_seed(q1)
        ELSE IF r.raised = "raise429" /\ q.attempt < max_retries - 1
        THEN [q1 EXCEPT !.pc = "call", !.attempt = @ + 1,
                        !.waits = Append(@, << "backoff", q.retry_delay >>),
                        !.retry_delay = @ * 2]
        ELSE next_seed(q1)

\* what the retry loop does with the outcome of one get_recommendations call
after_attempt(q, r) ==
    LET q1 == [q EXCEPT !.attempts = Append(@, attempt_record(q, r)),
                        !.explored[q.i + 1] = @ \cup Range(r.albums_calls)]
    IN  IF r.raised = "no"
        THEN IF r.ret # << >>
             THEN next_seed([q1 EXCEPT !.all_recommendations =
                                           extend_recommendations(@, r.ret),
                                       !.batches = Append(@, r.ret)])
             ELSE IF q.attempt + 1 < max_retries
             THEN [q1 EXCEPT !.pc = "call", !.attempt = @ + 1]
             ELSE next_seed(q1)
        ELSE IF r.raised = "raise429" /\ q.attempt < max_retries - 1
        THEN [q1 EXCEPT !.pc = "call", !.attempt = @ + 1,
                        !.waits = Append(@, << "backoff", q.retry_delay >>),
                        !.retry_delay = @ * 2]
        ELSE next_seed(q1)

\* ----------------------------------------------------------------- actions
Codes == {None, 1}
StateArgs == {Absent, Some(1)}

\* the callback stored the tokens of a grant
ExchangeSucceeded(op, r) == op = "callback" /\ r.ret = "redirect_recommendations"

\* since_clear: clear_spotify_tokens has been requested and no callback has
\* stored tokens since
Record(op, r, bearer, resp, code, state) ==
    [op |-> op, ret |-> r.ret, bearer |-> bearer, posts |-> r.posts,
     resp |-> IF r.posts = 0 THEN NoResponse ELSE resp,
     pre |-> session, t |-> now, code |-> code, state |-> state,
     since_clear |-> \/ op = "clear_spotify_tokens"
                     \/ last.since_clear /\ ~ExchangeSucceeded(op, r)]

Init ==
    /\ session = EmptySession
    /\ now = 0
    /\ last = [op |-> "init", ret |-> "none", bearer |-> None, posts |-> 0,
               resp |-> NoResponse, pre |-> EmptySession, t |-> 0,
               code |-> None, state |-> Absent, since_clear |-> FALSE]
    /\ req = IdleReq
    /\ rec = IdleRec

Tick ==
    /\ now < MaxTime
    /\ now' = now + 1
    /\ UNCHANGED << session, last, req, rec >>

LoginSpotify ==
    LET r == login_spotify(session) IN
    /\ session' = r.session
    /\ last' = Record("login_spotify", r, None, NoResponse, None, Absent)
    /\ UNCHANGED << now, req, rec >>

Callback ==
    \E code \in Codes, state \in StateArgs, resp \in TokenResponses :
        LET r == callback(session, now, code, resp) IN
        /\ session' = r.session
        /\ last' = Record("callback", r, None, resp, code, state)
        /\ UNCHANGED << now, req, rec >>

ClearSpotifyTokens ==
    /\ session' = clear_spotify_tokens(session)
    /\ last' = Record("clear_spotify_tokens",
                      Result(session, "redirect_profile", 0), None, NoResponse,
                      None, Absent)
    /\ UNCHANGED << now, req, rec >>

GetHeaders ==
    \E resp \in RefreshAnswers(session, TokenResponses) :
        LET r == get_headers(session, now, resp) IN
        /\ session' = r.session
        /\ last' = Record("get_headers", r, r.bearer, resp, None, Absent)
        /\ UNCHANGED << now, req, rec >>

ApiGetHeaders ==
    \E resp \in RefreshAnswers(session, TokenResponses) :
        LET r == api_get_headers(session, now, resp) IN
        /\ session' = r.session
        /\ last' = Record("api_get_headers", r, r.bearer, resp, None, Absent)
        /\ UNCHANGED << now, req, rec >>

ApiRefreshSpotifyToken ==
    \E resp \in RefreshAnswers(session, TokenResponses) :
        LET r == api_refresh_spotify_token(session, now, resp) IN
        /\ session' = r.session
        /\ last' = Record("api_refresh_spotify_token", r, None, resp, None, Absent)
        /\ UNCHANGED << now, req, rec >>

Next ==
    \/ Tick
    \/ LoginSpotify
    \/ Callback
    \/ ClearSpotifyTokens
    \/ GetHeaders
    \/ ApiGetHeaders
    \/ ApiRefreshSpotifyToken

Spec == Init /\ [][Next]_vars

\* ------------------------------------------- the /api/recommendations run
\* The token endpoint during a request: a transport failure, a rejection, or a
\* grant of a new access token that outlives the request.
RequestTokenResponses ==
    {TransportFailure} \cup Rejections \cup
    {g \in Grants : /\ g.access_token = MaxTokens
                    /\ g.expires_in = MaxLifetime
                    /\ g.refresh_token = Absent}

\* Sessions a request can find at RequestTime: an empty one, or one a callback
\* filled, its token expired by then, about to expire, or far from expiry.
RequestTime == 2
RequestSessions ==
    {EmptySession} \cup
    { [EmptySession EXCEPT !.spotify_token = Some(1),
                           !.spotify_refresh_token = Some(r),
                           !.spotify_token_expires_in = Some(e),
                           !.top_track_ids = ids] :
        r \in {None, 1},
        e \in {RequestTime - 1, RequestTime + 1, FarExpiry},
        ids \in {Absent} \cup {Some(l) : l \in TopTrackLists \ {<< >>}} }

RecInit ==
    /\ session \in RequestSessions
    /\ now = RequestTime
    /\ last = [op |-> "init", ret |-> "none", bearer |-> None, posts |-> 0,
               resp |-> NoResponse, pre |-> EmptySession, t |-> 0,
               code |-> None, state |-> Absent, since_clear |-> FALSE]
    /\ req = IdleReq
    /\ rec = IdleRec

\* before_request: fill user_id from the profile when a token is held
BeforeRequest ==
    /\ req.pc = "idle"
    /\ req' = [req EXCEPT !.pc = "handler"]
    /\ IF Has(session, "spotify_token") /\ ~Has(session, "user_id")
       THEN \E resp \in RefreshAnswers(session, RequestTokenResponses), o \in GetOutcomes :
                LET h == api_get_headers(session, now, resp) IN
                /\ session' = IF h.ret = "headers" /\ o = "ok"
                              THEN [h.session EXCEPT !.user_id = Some(1)]
                              ELSE h.session
       ELSE UNCHANGED session
    /\ UNCHANGED << now, last, rec >>

\* get_recommendations_api up to the loop over the seeds
ApiBegin ==
    /\ req.pc = "handler"
    /\ IF ~Has(session, "spotify_token")
       THEN /\ req' = respond(req, 401, << >>)
            /\ UNCHANGED session
       ELSE IF Has(session, "top_track_ids") /\ session.top_track_ids # Some(<< >>)
       THEN /\ req' = [req EXCEPT !.pc = "seed",
                                  !.seed_tracks = seed_tracks_of(session.top_track_ids[1])]
            /\ UNCHANGED session
       ELSE \E resp \in RefreshAnswers(session, RequestTokenResponses), o \in GetOutcomes, items \in TopTrackLists :
                LET h == api_get_headers(session, now, resp)
                    track_ids == Take(items, top_tracks_kept)
                IN  IF h.ret # "headers" \/ o # "ok"
                    THEN /\ session' = h.session
                         /\ req' = respond(req, 500, << >>)
                    ELSE IF items = << >>
                    THEN /\ session' = h.session
                         /\ req' = respond(req, 200, << >>)
                    ELSE /\ session' = [h.session EXCEPT
                                            !.top_track_ids = Some(track_ids)]
                         /\ req' = [req EXCEPT !.pc = "seed",
                                        !.seed_tracks = seed_tracks_of(track_ids)]
    /\ UNCHANGED << now, last, rec >>

\* a loop head that paces only once an earlier seed has brought recommendations
ApiSeedPacedAfterResult ==
    /\ req.pc = "seed"
    /\ req.i < Len(req.seed_tracks)
    /\ IF req.i > 0 /\ req.all_recommendations # << >>
       THEN /\ now' = now + pacing_delay
            /\ req' = [req EXCEPT !.pc = "call", !.attempts = << >>,
                                  !.waits = Append(@, << "pacing", pacing_delay >>)]
       ELSE /\ req' = [req EXCEPT !.pc = "call", !.attempts = << >>]
            /\ UNCHANGED now
    /\ UNCHANGED << session, last, rec >>

\* the head of the loop body: the pacing sleep before every seed but the first
ApiSeed ==
    /\ req.pc = "seed"
    /\ req.i < Len(req.seed_tracks)
    /\ IF req.i > 0
       THEN /\ now' = now + pacing_delay
            /\ req' = [req EXCEPT !.pc = "call", !.attempts = << >>,
                                  !.waits = Append(@, << "pacing", pacing_delay >>)]
       ELSE /\ req' = [req EXCEPT !.pc = "call", !.attempts = << >>]
            /\ UNCHANGED now
    /\ UNCHANGED << session, last, rec >>

\* get_recommendations([seed_track]) is entered
ApiCall ==
    /\ req.pc = "call"
    /\ \E resp \in RefreshAnswers(session, RequestTokenResponses) :
           LET h == api_get_headers(session, now, resp) IN
           /\ session' = h.session
           /\ rec' = start_get_recommendations(<< req.seed_tracks[req.i + 1] >>, h)
           /\ req' = enter_call(req, h)
    /\ UNCHANGED << now, last >>

RecTrack ==
    /\ rec.pc = "track"
    /\ \E o \in GetOutcomes, artist_id \in Artists :
           rec' = fetch_track(rec, o, artist_id)
    /\ UNCHANGED << session, now, last, req >>

RecAlbums ==
    /\ rec.pc = "albums"
    /\ \E o \in GetOutcomes, n \in 0..MaxAlbums :
           rec' = fetch_artist_albums(rec, o, n)
    /\ UNCHANGED << session, now, last, req >>

RecAlbumTracks ==
    /\ rec.pc = "album_tracks"
    /\ \E o \in GetOutcomes, items \in SUBSET Tracks :
           rec' \in fetch_album_tracks(rec, o, items)
    /\ UNCHANGED << session, now, last, req >>

RecBatch ==
    /\ rec.pc = "batch"
    /\ \E o \in GetOutcomes, selected \in selected_track_ids(rec) :
           /\ rec' = fetch_selected_tracks(rec, o, selected)
           /\ session' = IF o = "ok"
                         THEN [session EXCEPT !.recommended_tracks = Some(selected)]
                         ELSE session
    /\ UNCHANGED << now, last, req >>

\* the call returned or raised: the rest of the loop body
ApiReturn ==
    /\ req.pc = "wait"
    /\ rec.pc = "done"
    /\ req' = after_attempt(req, rec)
    /\ now' = now + backoff_slept(req, rec)
    /\ rec' = IdleRec
    /\ UNCHANGED << session, last >>

\* past the loop: de-duplicate, cut to 10, answer
ApiFinish ==
    /\ req.pc = "seed"
    /\ req.i >= Len(req.seed_tracks)
    /\ req' = respond(req, 200, recommendations_data(req.all_recommendations))
    /\ UNCHANGED << session, now, last, rec >>

RecNext ==
    \/ BeforeRequest
    \/ ApiBegin
    \/ ApiSeed
    \/ ApiCall
    \/ RecTrack
    \/ RecAlbums
    \/ RecAlbumTracks
    \/ RecBatch
    \/ ApiReturn
    \/ ApiFinish

SpecRec == RecInit /\ [][RecNext]_vars

\* ------------------------------------------- the merge of the seeds' batches
\* The same request with every get_recommendations call taken in one step, its
\* result drawn from batches long and varied enough for the cut to 4 per seed,
\* the de-duplication and the cut to 10 all to act.
MaxRuns == 4

\* ids of tracks that are no top track of the user
FirstOther == MaxTrack + 1

\* n consecutive ids from a on
Run(a, n) == [j \in 1..n |-> a + j - 1]

\* the first ids of the runs: consecutive runs of 4 share one id
RunStarts == {FirstOther + 3 * k : k \in 0..(MaxRuns - 1)}

\* what a call can return: nothing, a run of 4 or of 5 ids that may overlap
\* the run of another seed, or a list naming a track twice
MergeBatches ==
    {<< >>, << FirstOther, FirstOther + 1, FirstOther >>}
        \cup {Run(a, n) : a \in RunStarts, n \in per_seed_limit..(per_seed_limit + 1)}

\* how a call ends: a list returned, or an exception
CallOutcomes ==
    {[ret |-> b, raised |-> "no"] : b \in MergeBatches}
        \cup {[ret |-> << >>, raised |-> o] : o \in Raises}

MergeSessions ==
    { [EmptySession EXCEPT !.spotify_token = Some(1),
                           !.spotify_refresh_token = Some(1),
                           !.spotify_token_expires_in = Some(FarExpiry),
                           !.top_track_ids = Some(ids)] :
        ids \in TopTrackLists \ {<< >>} }

MergeInit ==
    /\ session \in MergeSessions
    /\ now = RequestTime
    /\ last = [op |-> "init", ret |-> "none", bearer |-> None, posts |-> 0,
               resp |-> NoResponse, pre |-> EmptySession, t |-> 0,
               code |-> None, state |-> Absent, since_clear |-> FALSE]
    /\ req = IdleReq
    /\ rec = IdleRec

\* get_recommendations([seed_track]) from entry to return; an empty list comes
\* with or without the batched request having answered 200
GetRecommendations ==
    /\ req.pc = "call"
    /\ \E resp \in RefreshAnswers(session, RequestTokenResponses),
          c \in CallOutcomes, answered \in BOOLEAN :
           LET h == api_get_headers(session, now, resp)
               r0 == start_get_recommendations(<< req.seed_tracks[req.i + 1] >>, h)
               r == IF r0.pc = "done" THEN r0
                    ELSE [r0 EXCEPT !.pc = "done", !.ret = c.ret,
                                    !.raised = c.raised]
           IN  /\ c.ret # << >> => answered
               /\ c.raised # "no" => ~answered
               /\ req' = after_attempt(enter_call(req, h), r)
               /\ now' = now + backoff_slept(req, r)
               /\ session' = IF r0.pc # "done" /\ answered
                             THEN [h.session EXCEPT !.recommended_tracks = Some(c.ret)]
                             ELSE h.session
    /\ UNCHANGED << last, rec >>

MergeNext ==
    \/ BeforeRequest
    \/ ApiBegin
    \/ ApiSeed
    \/ GetRecommendations
    \/ ApiFinish

SpecMerge == MergeInit /\ [][MergeNext]_vars

\* the same request when the server keeps running it: every call returns or
\* raises, and the handler goes on to its next statement
SpecMergeLive == SpecMerge /\ WF_vars(MergeNext)

\* ------------------------------- POST /spotify/add_recommendations_to_queue
MaxTopTracks == 6
top_tracks_cache_ttl == 3600

\* the user's top tracks as /me/top/tracks?limit=10 lists them
QueueTopTrackLists == {[j \in 1..n |-> j] : n \in 0..MaxTopTracks}

\* a premium test that passes when the profile cannot be fetched
is_premium_user_unless_known(s, t, resp, o, premium) ==
    LET h == get_headers(s, t, resp) IN
    IF h.ret = "raise" \/ o \in Raises
    THEN [session |-> h.session, ret |-> "raise"]
    ELSE IF ~Accepted(h, o) \/ premium
    THEN [session |-> h.session, ret |-> "True"]
    ELSE [session |-> h.session, ret |-> "False"]

\* spotify.is_premium_user; premium is what the profile says
is_premium_user(s, t, resp, o, premium) ==
    LET h == get_headers(s, t, resp) IN
    IF h.ret = "raise" \/ o \in Raises
    THEN [session |-> h.session, ret |-> "raise"]
    ELSE IF Accepted(h, o) /\ premium
    THEN [session |-> h.session, ret |-> "True"]
    ELSE [session |-> h.session, ret |-> "False"]

\* a test that lets a cache entry of any age pass
cache_valid_at_any_age(s, t) ==
    /\ Has(s, "cached_top_tracks")
    /\ Has(s, "cached_top_tracks_time")

\* the cache test of spotify.get_top_tracks
cache_valid(s, t) ==
    /\ Has(s, "cached_top_tracks")
    /\ Has(s, "cached_top_tracks_time")
    /\ t - Get(s, "cached_top_tracks_time") < top_tracks_cache_ttl

\* a get_top_tracks that drops the tokens when the provider refuses the request
get_top_tracks_clearing(s, t, resp, o, items) ==
    LET h == get_headers(s, t, resp)
        s1 == h.session
    IN  IF h.ret = "raise"
        THEN [session |-> s1, ret |-> "raise", top_tracks |-> << >>, asked |-> FALSE]
        ELSE IF h.ret = "none"
        THEN [session |-> s1, ret |-> "ok", top_tracks |-> << >>, asked |-> FALSE]
        ELSE IF cache_valid(s1, t)
        THEN [session |-> s1, ret |-> "ok",
              top_tracks |-> Get(s1, "cached_top_tracks"), asked |-> FALSE]
        ELSE IF o \in Raises
        THEN [session |-> s1, ret |-> "raise", top_tracks |-> << >>, asked |-> TRUE]
        ELSE IF ~Accepted(h, o)
        THEN [session |-> clear_spotify_tokens(s1), ret |-> "ok",
              top_tracks |-> << >>, asked |-> TRUE]
        ELSE [session |-> [s1 EXCEPT !.cached_top_tracks = Some(items),
                                     !.cached_top_tracks_time = Some(t)],
              ret |-> "ok", top_tracks |-> items, asked |-> TRUE]

\* spotify.get_top_tracks; items is what the provider lists, asked whether a
\* request to /me/top/tracks was sent
get_top_tracks(s, t, resp, o, items) ==
    LET h == get_headers(s, t, resp)
        s1 == h.session
    IN  IF h.ret = "raise"
        THEN [session |-> s1, ret |-> "raise", top_tracks |-> << >>, asked |-> FALSE]
        ELSE IF h.ret = "none"
        THEN [session |-> s1, ret |-> "ok", top_tracks |-> << >>, asked |-> FALSE]
        ELSE IF cache_valid(s1, t)
        THEN [session |-> s1, ret |-> "ok",
              top_tracks |-> Get(s1, "cached_top_tracks"), asked |-> FALSE]
        ELSE IF o \in Raises
        THEN [session |-> s1, ret |-> "raise", top_tracks |-> << >>, asked |-> TRUE]
        ELSE IF ~Accepted(h, o)
        THEN [session |-> s1, ret |-> "ok", top_tracks |-> << >>, asked |-> TRUE]
        ELSE [session |-> [s1 EXCEPT !.cached_top_tracks = Some(items),
                                     !.cached_top_tracks_time = Some(t)],
              ret |-> "ok", top_tracks |-> items, asked |-> TRUE]

\* Sessions the queue request can find: a token with its refresh token,
\* expired or far from expiry, and no cache, a fresh one or an outdated one.
QueueSessions ==
    { [EmptySession EXCEPT !.spotify_token = Some(1),
                           !.spotify_refresh_token = Some(1),
                           !.spotify_token_expires_in = Some(e),
                           !.user_id = Some(1),
                           !.cached_top_tracks = c[1],
                           !.cached_top_tracks_time = c[2]] :
        e \in {RequestTime - 1, FarExpiry},
        c \in {<< Absent, Absent >>}
                \cup {<< Some(l), Some(ct) >> :
                         l \in QueueTopTrackLists,
                         ct \in {RequestTime - 1,
                                 RequestTime - top_tracks_cache_ttl}} }

QueueInit ==
    /\ session \in {EmptySession} \cup QueueSessions
    /\ now = RequestTime
    /\ last = [op |-> "init", ret |-> "none", bearer |-> None, posts |-> 0,
               resp |-> NoResponse, pre |-> EmptySession, t |-> 0,
               code |-> None, state |-> Absent, since_clear |-> FALSE]
    /\ req = IdleReq
    /\ rec = IdleRec

\* add_recommendations_to_queue up to the call of get_recommendations
QueueBegin ==
    /\ req.pc = "handler"
    /\ \E resp1, resp2, resp3 \in RefreshAnswers(session, RequestTokenResponses),
          o1, o2 \in GetOutcomes, premium \in BOOLEAN,
          items \in QueueTopTrackLists :
           LET p == is_premium_user(session, now, resp1, o1, premium)
               g == get_top_tracks(p.session, now, resp2, o2, items)
               h == get_headers(g.session, now, resp3)
           IN  IF p.ret = "raise"
               THEN session' = p.session /\ req' = respond(req, 500, << >>)
                    /\ UNCHANGED rec
               ELSE IF p.ret = "False" \/ ~Has(p.session, "spotify_token")
               THEN session' = p.session /\ req' = respond(req, 302, << >>)
                    /\ UNCHANGED rec
               ELSE IF g.ret = "raise"
               THEN session' = g.session /\ req' = respond(req, 500, << >>)
                    /\ UNCHANGED rec
               ELSE IF h.ret = "raise"
               THEN session' = h.session /\ req' = respond(req, 500, << >>)
                    /\ UNCHANGED rec
               ELSE /\ session' = h.session
                    /\ req' = [req EXCEPT !.pc = "wait"]
                    /\ rec' = start_get_recommendations(g.top_tracks, h)
    /\ UNCHANGED << now, last >>

\* get_recommendations returned or raised: the rest of the handler; body is
\* the list of the tracks sent to the queue
QueueReturn ==
    /\ req.pc = "wait"
    /\ rec.pc = "done"
    /\ \E resp \in RefreshAnswers(session, RequestTokenResponses),
          o \in {"ok", "raise"} :
           LET h == get_headers(session, now, resp) IN
           IF rec.raised # "no"
           THEN req' = respond(req, 500, << >>) /\ UNCHANGED session
           ELSE IF rec.ret = << >>
           THEN req' = respond(req, 302, << >>) /\ UNCHANGED session
           ELSE IF h.ret = "raise" \/ (h.ret = "headers" /\ o = "raise")
           THEN req' = respond(req, 500, << >>) /\ session' = h.session
           ELSE IF h.ret = "none"
           THEN req' = respond(req, 302, << >>) /\ session' = h.session
           ELSE req' = respond(req, 302, rec.ret) /\ session' = h.session
    /\ rec' = IdleRec
    /\ UNCHANGED << now, last >>

QueueNext ==
    \/ BeforeRequest
    \/ QueueBegin
    \/ RecTrack
    \/ RecAlbums
    \/ RecAlbumTracks
    \/ RecBatch
    \/ QueueReturn

SpecQueue == QueueInit /\ [][QueueNext]_vars

\* ------------------------------------------- the operations, one call each
\* What an operation did: the session it leaves, what it returned or raised,
\* and, for the playlist operations and the spotify_api ones, the requests it
\* sent, in order ("token" is the refresh request).
Done(s, ret, calls) == [session |-> s, ret |-> ret, calls |-> calls]

\* the refresh requests of a get_headers call
TokenCalls(h) == [j \in 1..h.posts |-> "token"]

\* spotify.get_current_user(headers)
get_current_user(h, o) ==
    IF o \in Raises THEN "raise"
    ELSE IF Accepted(h, o) THEN "user" ELSE "None"

\* the ids the provider gives to new playlists
PlaylistIds == {1, 2}

\* spotify.create_playlist(headers): the profile, then the playlist; id is the
\* id in the provider's 201 answer, and the id returned is None on a failure
create_playlist(h, o_me, o_create, id) ==
    LET user_data == get_current_user(h, o_me) IN
    IF user_data = "raise"
    THEN [ret |-> "raise", calls |-> << "me" >>, id |-> None]
    ELSE IF user_data = "None"
    THEN [ret |-> "None", calls |-> << "me" >>, id |-> None]
    ELSE IF o_create \in Raises
    THEN [ret |-> "raise", calls |-> << "me", "create_playlist" >>, id |-> None]
    ELSE IF Accepted(h, o_create)
    THEN [ret |-> "playlist_id", calls |-> << "me", "create_playlist" >>,
          id |-> id]
    ELSE [ret |-> "None", calls |-> << "me", "create_playlist" >>, id |-> None]

\* spotify.add_tracks_to_playlist: returns None whatever the answer
add_tracks_to_playlist(h, o_add) ==
    IF o_add \in Raises THEN "raise" ELSE "None"

\* session.get('recommended_tracks', [])
recommended_track_ids(s) ==
    IF Has(s, "recommended_tracks") THEN Get(s, "recommended_tracks") ELSE << >>

\* What a playlist build did: next to the session, the return value and the
\* requests, the id of the playlist the provider created and the id in the
\* URL of the add-tracks request (None when there was none).
Built(s, ret, calls, created, target) ==
    [session |-> s, ret |-> ret, calls |-> calls,
     created |-> created, target |-> target]

\* POST /add-to-playlist
add_to_playlist(s, t, resp, o_me, o_me2, o_create, o_add, id) ==
    LET h == get_headers(s, t, resp)
        calls0 == TokenCalls(h) \o << "me" >>
        user_data == get_current_user(h, o_me)
        p == create_playlist(h, o_me2, o_create, id)
        playlist_id == p.id
    IN  IF h.ret = "raise"
        THEN Built(h.session, "raise", TokenCalls(h), None, None)
        ELSE IF user_data = "raise"
        THEN Built(h.session, "raise", calls0, None, None)
        ELSE IF user_data = "None"
        THEN Built(h.session, "redirect_profile", calls0, None, None)
        ELSE IF recommended_track_ids(h.session) = << >>
        THEN Built(h.session, "redirect_profile", calls0, None, None)
        ELSE IF p.ret = "raise"
        THEN Built(h.session, "raise", calls0 \o p.calls, None, None)
        ELSE IF ~Truthy(playlist_id)
        THEN Built(h.session, "redirect_profile", calls0 \o p.calls, None, None)
        ELSE IF add_tracks_to_playlist(h, o_add) = "raise"
        THEN Built(h.session, "raise", calls0 \o p.calls \o << "add_tracks" >>,
                   id, playlist_id)
        ELSE Built(h.session, "redirect_profile",
                   calls0 \o p.calls \o << "add_tracks" >>, id, playlist_id)

\* GET /spotify/recommendations: the top tracks, the premium flag, then every
\* top track id is stored
spotify_recommendations(s, t, resp1, resp2, o, items, o_me, premium) ==
    LET g == get_top_tracks(s, t, resp1, o, items)
        p == is_premium_user(g.session, t, resp2, o_me, premium)
    IN  IF ~Has(s, "spotify_token") THEN Done(s, "redirect_login", << >>)
        ELSE IF g.ret = "raise" THEN Done(g.session, "raise", << >>)
        ELSE IF g.top_tracks = << >>
        THEN Done(g.session, "redirect_profile", << >>)
        ELSE IF p.ret = "raise" THEN Done(p.session, "raise", << >>)
        ELSE Done([p.session EXCEPT !.top_track_ids = Some(g.top_tracks)],
                  "render", << >>)

\* spotify_api.get_current_user(headers): None on every failure
api_get_current_user(h, o) == IF Accepted(h, o) THEN "user" ELSE "None"

\* spotify_api.is_premium_user
api_is_premium_user(s, t, resp, o, premium) ==
    LET h == api_get_headers(s, t, resp) IN
    IF h.ret # "headers" THEN Done(h.session, "False", TokenCalls(h))
    ELSE IF api_get_current_user(h, o) = "user" /\ premium
    THEN Done(h.session, "True", TokenCalls(h) \o << "me" >>)
    ELSE Done(h.session, "False", TokenCalls(h) \o << "me" >>)

\* the time ranges the provider knows, and two it does not
valid_time_ranges == {"short_term", "medium_term", "long_term"}
TimeRanges == valid_time_ranges \cup {"all_time", ""}
provider_max_limit == 50

\* parameters that pass any time_range on
top_tracks_params_unchecked(limit, time_range) ==
    [limit |-> Min(limit, provider_max_limit), time_range |-> time_range]

\* the params of GET /me/top/tracks
top_tracks_params(limit, time_range) ==
    [limit |-> Min(limit, provider_max_limit),
     time_range |-> IF time_range \notin valid_time_ranges
                    THEN "short_term" ELSE time_range]

\* spotify_api.get_top_tracks(None, limit, time_range)
api_get_top_tracks(s, t, resp, limit, time_range, o, items) ==
    LET h == api_get_headers(s, t, resp) IN
    IF h.ret # "headers"
    THEN Done(h.session, "AuthenticationError", TokenCalls(h))
    ELSE IF ~Accepted(h, o)
    THEN Done(h.session, "SpotifyAPIError", TokenCalls(h) \o << "top_tracks" >>)
    ELSE Done(h.session, "items", TokenCalls(h) \o << "top_tracks" >>)

\* spotify_api.get_recommendations(track_ids) from entry to return: c is how
\* the loop and the batched request end, answered whether that request got 200
get_recommendations(s, t, resp, c, answered) ==
    LET h == api_get_headers(s, t, resp) IN
    IF h.ret # "headers" THEN Done(h.session, "[]", TokenCalls(h))
    ELSE IF c.raised # "no"
    THEN Done(h.session, "AppError", TokenCalls(h) \o << "tracks" >>)
    ELSE IF answered
    THEN Done([h.session EXCEPT !.recommended_tracks = Some(c.ret)],
              "tracks", TokenCalls(h) \o << "tracks" >>)
    ELSE Done(h.session, "[]", TokenCalls(h) \o << "tracks" >>)

\* spotify.get_recommendations(track_ids) from entry to return
spotify_get_recommendations(s, t, resp, c, answered) ==
    LET h == get_headers(s, t, resp) IN
    IF h.ret = "raise" THEN Done(h.session, "raise", << >>)
    ELSE IF h.ret # "headers" THEN Done(h.session, "[]", << >>)
    ELSE IF c.raised # "no" THEN Done(h.session, "raise", << >>)
    ELSE IF answered /\ h.bearer # None
    THEN Done([h.session EXCEPT !.recommended_tracks = Some(c.ret)],
              "tracks", << >>)
    ELSE Done(h.session, "[]", << >>)

\* POST /spotify/add_recommendations_to_queue from entry to return. Only the
\* first get_headers of a request can send a refresh request (the later ones
\* find no token or an unexpired one), so one answer of the token endpoint is
\* enough; o_queue is how the requests to /me/player/queue end, and those
\* requests are the ones listed in what the operation did.
add_recommendations_to_queue(s, t, resp, o_me, premium, o, items, c, answered, o_queue) ==
    LET p == is_premium_user(s, t, resp, o_me, premium)
        g == get_top_tracks(p.session, t, resp, o, items)
        r == spotify_get_recommendations(g.session, t, resp, c, answered)
        h == get_headers(r.session, t, resp)
    IN  IF p.ret = "raise" THEN Done(p.session, "raise", << >>)
        ELSE IF p.ret = "False" THEN Done(p.session, "redirect_profile", << >>)
        ELSE IF ~Has(p.session, "spotify_token")
        THEN Done(p.session, "redirect_login", << >>)
        ELSE IF g.ret = "raise" THEN Done(g.session, "raise", << >>)
        ELSE IF r.ret = "raise" THEN Done(r.session, "raise", << >>)
        ELSE IF r.ret = "[]" \/ r.session.recommended_tracks = Some(<< >>)
        THEN Done(r.session, "redirect_profile", << >>)
        ELSE IF h.ret = "raise" THEN Done(h.session, "raise", << >>)
        ELSE IF h.ret = "none" THEN Done(h.session, "redirect_login", << >>)
        ELSE IF o_queue \in Raises THEN Done(h.session, "raise", << "queue" >>)
        ELSE Done(h.session, "redirect_profile",
                  [j \in 1..Len(c.ret) |-> "queue"])

\* a build that goes on to add the tracks whatever the create request got
create_playlist_with_tracks_adding_anyway(s, t, resp, track_uris, o_me, o_create, o_add, id) ==
    LET h == api_get_headers(s, t, resp)
        calls0 == TokenCalls(h) \o << "me" >>
        playlist_id == id
    IN  IF h.ret # "headers"
        THEN Built(h.session, "AuthenticationError", TokenCalls(h), None, None)
        ELSE IF api_get_current_user(h, o_me) # "user"
        THEN Built(h.session, "DataProcessingError", calls0, None, None)
        ELSE IF ~Accepted(h, o_add)
        THEN Built(h.session, "SpotifyAPIError",
                   calls0 \o << "create_playlist", "add_tracks" >>,
                   id, playlist_id)
        ELSE Built(h.session, "True",
                   calls0 \o << "create_playlist", "add_tracks" >>,
                   id, playlist_id)

\* spotify_api.create_playlist_with_tracks(track_uris); id is the id in the
\* provider's 201 answer to the create request
create_playlist_with_tracks(s, t, resp, track_uris, o_me, o_create, o_add, id) ==
    LET h == api_get_headers(s, t, resp)
        calls0 == TokenCalls(h) \o << "me" >>
        playlist_id == id
    IN  IF h.ret # "headers"
        THEN Built(h.session, "AuthenticationError", TokenCalls(h), None, None)
        ELSE IF api_get_current_user(h, o_me) # "user"
        THEN Built(h.session, "DataProcessingError", calls0, None, None)
        ELSE IF ~Accepted(h, o_create)
        THEN Built(h.session, "SpotifyAPIError",
                   calls0 \o << "create_playlist" >>, None, None)
        ELSE IF ~Accepted(h, o_add)
        THEN Built(h.session, "SpotifyAPIError",
                   calls0 \o << "create_playlist", "add_tracks" >>,
                   id, playlist_id)
        ELSE Built(h.session, "True",
                   calls0 \o << "create_playlist", "add_tracks" >>,
                   id, playlist_id)

\* ------------------------------------------ the operations on one session
\* Every operation is applied once to every session of OpsSessions, with
\* every answer of the provider.
MaxLimit == 51

\* the limits asked of get_top_tracks: small ones, and those around the
\* provider's maximum
Limits == {l \in 1..MaxLimit : l <= 2 \/ l >= provider_max_limit - 1}

TrackUriLists == {<< >>, << 1 >>, << 1, 2 >>}

\* Sessions an operation can find: an empty one, or one a callback filled, its
\* token expired or far from expiry, with or without recommended tracks.
OpsSessions ==
    {EmptySession} \cup
    { [EmptySession EXCEPT !.spotify_token = Some(1),
                           !.spotify_refresh_token = Some(r),
                           !.spotify_token_expires_in = Some(e),
                           !.recommended_tracks = ids] :
        r \in {None, 1},
        e \in {RequestTime - 1, FarExpiry},
        ids \in {Absent} \cup {Some(l) : l \in TrackUriLists} }

\* the requests among create_playlist and add_tracks that were sent and did
\* not get 201
FailedCalls(d, h, o_create, o_add) ==
    {c \in {"create_playlist"} : c \in Range(d.calls) /\ ~Accepted(h, o_create)}
    \cup {c \in {"add_tracks"} : c \in Range(d.calls) /\ ~Accepted(h, o_add)}

\* the operation just run: its name, the session and time it found, whether
\* its get_headers returned headers, its arguments, what it did, and which of
\* its playlist requests failed
OpRecord(op, d, auth, track_uris, params, failed) ==
    [op |-> op, pre |-> session, t |-> now, auth |-> auth,
     track_uris |-> track_uris, params |-> params,
     ret |-> d.ret, calls |-> d.calls, failed |-> failed,
     created |-> None, target |-> None, profile |-> "none"]

\* what the profile request of is_premium_user gave
ProfileGiven(h, o, premium) ==
    IF ~Accepted(h, o) THEN "failed"
    ELSE IF premium THEN "premium" ELSE "free"

\* the arguments of a get_top_tracks call and the params it sent
CallParams(limit, time_range, sent) ==
    [limit |-> limit, time_range |-> time_range,
     sent_limit |-> sent.limit, sent_time_range |-> sent.time_range]

NoParams == CallParams(0, "", [limit |-> 0, time_range |-> ""])

\* the playlist build just run: the same, with the id of the playlist created
\* and the id the add-tracks request named
BuildRecord(op, d, auth, track_uris, failed) ==
    [OpRecord(op, d, auth, track_uris, NoParams, failed)
        EXCEPT !.created = d.created, !.target = d.target]

\* no operation has run on the session yet
Fresh == last.op = "init"

OpsInit ==
    /\ session \in OpsSessions
    /\ now = RequestTime
    /\ last = [op |-> "init", pre |-> EmptySession, t |-> 0, auth |-> FALSE,
               track_uris |-> << >>, params |-> NoParams,
               ret |-> "none", calls |-> << >>, failed |-> {},
               created |-> None, target |-> None, profile |-> "none"]
    /\ req = IdleReq
    /\ rec = IdleRec

AddToPlaylist ==
    /\ Fresh
    /\ \E resp \in RefreshAnswers(session, RequestTokenResponses),
          o_me, o_me2, o_create, o_add \in GetOutcomes, id \in PlaylistIds :
           LET d == add_to_playlist(session, now, resp, o_me, o_me2, o_create,
                                    o_add, id)
               h == get_headers(session, now, resp)
           IN  /\ session' = d.session
               /\ last' = BuildRecord("add_to_playlist", d, h.ret = "headers",
                                      recommended_track_ids(h.session),
                                      FailedCalls(d, h, o_create, o_add))
    /\ UNCHANGED << now, req, rec >>

CreatePlaylistWithTracks ==
    /\ Fresh
    /\ \E resp \in RefreshAnswers(session, RequestTokenResponses),
          o_me, o_create, o_add \in GetOutcomes,
          track_uris \in TrackUriLists, id \in PlaylistIds :
           LET d == create_playlist_with_tracks(session, now, resp, track_uris,
                                                o_me, o_create, o_add, id)
               h == api_get_headers(session, now, resp)
           IN  /\ session' = d.session
               /\ last' = BuildRecord("create_playlist_with_tracks", d,
                                      h.ret = "headers", track_uris,
                                      FailedCalls(d, h, o_create, o_add))
    /\ UNCHANGED << now, req, rec >>

SpotifyRecommendations ==
    /\ Fresh
    /\ \E resp1, resp2 \in RefreshAnswers(session, RequestTokenResponses),
          o, o_me \in GetOutcomes, premium \in BOOLEAN,
          items \in QueueTopTrackLists :
           LET d == spotify_recommendations(session, now, resp1, resp2, o, items,
                                            o_me, premium)
               h == get_headers(session, now, resp1)
           IN  /\ session' = d.session
               /\ last' = OpRecord("spotify_recommendations", d,
                                   h.ret = "headers", << >>, NoParams, {})
    /\ UNCHANGED << now, req, rec >>

ApiIsPremiumUser ==
    /\ Fresh
    /\ \E resp \in RefreshAnswers(session, RequestTokenResponses),
          o \in GetOutcomes, premium \in BOOLEAN :
           LET d == api_is_premium_user(session, now, resp, o, premium)
               h == api_get_headers(session, now, resp)
           IN  /\ session' = d.session
               /\ last' = OpRecord("is_premium_user", d, h.ret = "headers",
                                   << >>, NoParams, {})
    /\ UNCHANGED << now, req, rec >>

ApiGetTopTracks ==
    /\ Fresh
    /\ \E resp \in RefreshAnswers(session, RequestTokenResponses),
          o \in GetOutcomes, items \in TopTrackLists,
          limit \in Limits, time_range \in TimeRanges :
           LET d == api_get_top_tracks(session, now, resp, limit, time_range,
                                       o, items)
               h == api_get_headers(session, now, resp)
           IN  /\ session' = d.session
               /\ last' = OpRecord("get_top_tracks", d, h.ret = "headers", << >>,
                                   IF "top_tracks" \in Range(d.calls)
                                   THEN CallParams(limit, time_range,
                                            top_tracks_params(limit, time_range))
                                   ELSE NoParams, {})
    /\ UNCHANGED << now, req, rec >>

GetRecommendationsCall ==
    /\ Fresh
    /\ \E resp \in RefreshAnswers(session, RequestTokenResponses),
          c \in CallOutcomes, answered \in BOOLEAN :
           LET d == get_recommendations(session, now, resp, c, answered)
               h == api_get_headers(session, now, resp)
           IN  /\ c.ret # << >> => answered
               /\ c.raised # "no" => ~answered
               /\ session' = d.session
               /\ last' = OpRecord("get_recommendations", d, h.ret = "headers",
                                   << >>, NoParams, {})
    /\ UNCHANGED << now, req, rec >>

\* how the get_recommendations call of the queue request ends: nothing, one
\* batch, or an exception
QueueCallOutcomes ==
    {c \in CallOutcomes : c.ret \in {<< >>, Run(FirstOther, per_seed_limit)}}

AddRecommendationsToQueue ==
    /\ Fresh
    /\ \E resp \in RefreshAnswers(session, RequestTokenResponses),
          o_me, o \in GetOutcomes, premium \in BOOLEAN,
          items \in TopTrackLists, c \in QueueCallOutcomes,
          answered \in BOOLEAN, o_queue \in {"ok", "raise"} :
           LET d == add_recommendations_to_queue(session, now, resp, o_me,
                        premium, o, items, c, answered, o_queue)
               h == get_headers(session, now, resp)
           IN  /\ c.ret # << >> => answered
               /\ c.raised # "no" => ~answered
               /\ session' = d.session
               /\ last' = [OpRecord("add_recommendations_to_queue", d,
                                    h.ret = "headers", << >>, NoParams, {})
                              EXCEPT !.profile = ProfileGiven(h, o_me, premium)]
    /\ UNCHANGED << now, req, rec >>

OpsNext ==
    \/ AddRecommendationsToQueue
    \/ AddToPlaylist
    \/ CreatePlaylistWithTracks
    \/ SpotifyRecommendations
    \/ ApiIsPremiumUser
    \/ ApiGetTopTracks
    \/ GetRecommendationsCall

SpecOps == OpsInit /\ [][OpsNext]_vars

\* ------------------------------------------- one get_recommendations call
\* A single call of get_recommendations, step by step, for artists with
\* several albums. Here last is the log of the artist being explored: the
\* number of albums listed, the length of all_track_ids when the artist's
\* albums were listed, and for each album fetched so far how the fetch ended.
MaxCallAlbums == 3

\* the track_ids of the call
CallTrackLists == {l \in TopTrackLists : l # << >> /\ Len(l) <= 2}

\* how the fetch of an album's tracks ended
AlbumFetch(o, items) ==
    IF o \in Raises THEN "raised"
    ELSE IF o \in NotOk THEN "failed"
    ELSE IF items = {} THEN "empty"
    ELSE "nonempty"

NoArtistLog == [listed |-> 0, base |-> 0, log |-> << >>]

CallInit ==
    /\ session = [EmptySession EXCEPT !.spotify_token = Some(1),
                                      !.spotify_refresh_token = Some(1),
                                      !.spotify_token_expires_in = Some(FarExpiry)]
    /\ now = RequestTime
    /\ last = NoArtistLog
    /\ req = IdleReq
    /\ \E track_ids \in CallTrackLists :
           rec = start_get_recommendations(track_ids, Headers(session, 0))

CallTrack ==
    /\ rec.pc = "track"
    /\ \E o \in GetOutcomes, artist_id \in Artists :
           rec' = fetch_track(rec, o, artist_id)
    /\ UNCHANGED << session, now, last, req >>

CallAlbums ==
    /\ rec.pc = "albums"
    /\ \E o \in GetOutcomes, n \in 0..MaxCallAlbums :
           /\ rec' = fetch_artist_albums(rec, o, n)
           /\ last' = [listed |-> IF o = "ok" THEN n ELSE 0,
                       base |-> Len(rec.all_track_ids), log |-> << >>]
    /\ UNCHANGED << session, now, req >>

CallAlbumTracks ==
    /\ rec.pc = "album_tracks"
    /\ \E o \in GetOutcomes, items \in SUBSET Tracks :
           /\ rec' \in fetch_album_tracks(rec, o, items)
           /\ last' = [last EXCEPT !.log = Append(@, AlbumFetch(o, items))]
    /\ UNCHANGED << session, now, req >>

CallBatch ==
    /\ rec.pc = "batch"
    /\ \E o \in GetOutcomes, selected \in selected_track_ids(rec) :
           /\ rec' = fetch_selected_tracks(rec, o, selected)
           /\ session' = IF o = "ok"
                         THEN [session EXCEPT !.recommended_tracks = Some(selected)]
                         ELSE session
    /\ UNCHANGED << now, last, req >>

CallNext ==
    \/ CallTrack
    \/ CallAlbums
    \/ CallAlbumTracks
    \/ CallBatch

SpecCall == CallInit /\ [][CallNext]_vars

\* ------------------------------------------------- the batched request
\* The end of a get_recommendations call: the loop over track_ids is over and
\* all_track_ids holds what the albums gave, more than 10 ids or fewer, ids of
\* track_ids among them. Here last is the id list the batched request asked.
MaxPool == 12

\* all_track_ids of n entries: the j-th is an id of its own, or where seeded
\* says so the first id of track_ids
Pool(n, seeded, track_ids) ==
    [j \in 1..n |-> IF j \in seeded THEN track_ids[1] ELSE FirstOther + j - 1]

Pools(track_ids) ==
    {Pool(n, seeded, track_ids) : n \in 0..MaxPool, seeded \in SUBSET (1..2)}

\* the call past its loop: every track fetched, the first one's artist
\* explored
PastLoop(track_ids, pool) ==
    [IdleRec EXCEPT !.pc = "batch", !.track_ids = track_ids,
                    !.k = Len(track_ids), !.processed_artists = {1},
                    !.artist_id = 1, !.fetched = track_ids,
                    !.albums_calls = << 1 >>, !.all_track_ids = pool]

NothingAsked == [asked |-> FALSE, ids |-> << >>]

PoolInit ==
    /\ session = [EmptySession EXCEPT !.spotify_token = Some(1),
                                      !.spotify_refresh_token = Some(1),
                                      !.spotify_token_expires_in = Some(FarExpiry)]
    /\ now = RequestTime
    /\ last = NothingAsked
    /\ req = IdleReq
    /\ \E track_ids \in CallTrackLists :
           \E pool \in Pools(track_ids) : rec = PastLoop(track_ids, pool)

PoolBatch ==
    /\ rec.pc = "batch"
    /\ \E o \in GetOutcomes, selected \in selected_track_ids(rec) :
           /\ rec' = fetch_selected_tracks(rec, o, selected)
           /\ last' = [asked |-> TRUE, ids |-> selected]
           /\ session' = IF o = "ok"
                         THEN [session EXCEPT !.recommended_tracks = Some(selected)]
                         ELSE session
    /\ UNCHANGED << now, req >>

PoolNext == PoolBatch

SpecPool == PoolInit /\ [][PoolNext]_vars

\* --------------------------------------- concurrent requests on one session
\* Requests of one session served at the same time. Each request works on the
\* session as it was stored when the request began and the whole of it is
\* stored again when the request ends (SESSION_TYPE 'filesystem'); between the
\* two it runs get_headers, of spotify.py or of spotify_api.py. Here req maps
\* each request to its locals, and last says which request stored last and
\* how many tokens the token endpoint has granted.
MaxRequests == 2
Requests == 1..MaxRequests

\* the token fields of a session
TokenFields(s) ==
    << s.spotify_token, s.spotify_refresh_token, s.spotify_token_expires_in >>

\* the grant that follows `granted` earlier ones: every grant issues a new
\* access token
RaceGrant(granted) ==
    [kind |-> "http", status |-> 200, json |-> TRUE,
     access_token |-> granted + 2, expires_in |-> MaxLifetime,
     refresh_token |-> Absent]

\* The token endpoint during the race: a transport failure, a rejection, or,
\* to a request that carries a refresh token, a grant.
RaceAnswers(s, granted) ==
    {TransportFailure} \cup Rejections \cup
    (IF Truthy(Get(s, "spotify_refresh_token"))
     THEN {RaceGrant(granted)} ELSE {})

\* Sessions the requests can find: a callback filled them, and the token has
\* expired or is far from expiry.
RaceSessions ==
    { [EmptySession EXCEPT !.spotify_token = Some(1),
                           !.spotify_refresh_token = Some(r),
                           !.spotify_token_expires_in = Some(e)] :
        r \in {None, 1}, e \in {RequestTime - 1, FarExpiry} }

IdleRequest ==
    [pc |-> "idle", copy |-> EmptySession, found |-> EmptySession,
     expired |-> FALSE, posts |-> 0, granted |-> None]

RaceInit ==
    /\ session \in RaceSessions
    /\ now = RequestTime
    /\ last = [writer |-> 0, granted |-> 0]
    /\ req = [p \in Requests |-> IdleRequest]
    /\ rec = IdleRec

\* the request begins: the stored session is loaded
RaceOpen(p) ==
    /\ req[p].pc = "idle"
    /\ req' = [req EXCEPT ![p].pc = "open", ![p].copy = session,
                          ![p].found = session]
    /\ UNCHANGED << session, now, last, rec >>

\* the request's handler calls get_headers, which works on the request's
\* session
RaceGetHeaders(p) ==
    /\ req[p].pc = "open"
    /\ \E api \in BOOLEAN,
          resp \in RaceAnswers(req[p].copy, last.granted) :
           LET h == IF api THEN api_get_headers(req[p].copy, now, resp)
                    ELSE get_headers(req[p].copy, now, resp)
               got == h.posts > 0 /\ resp = RaceGrant(last.granted)
           IN  /\ req' = [req EXCEPT
                             ![p].pc = "handled",
                             ![p].copy = h.session,
                             ![p].expired = IF api
                                            THEN api_token_expired(req[p].copy, now)
                                            ELSE is_token_expired(req[p].copy, now),
                             ![p].posts = h.posts,
                             ![p].granted = IF got THEN resp.access_token ELSE None]
               /\ last' = [last EXCEPT !.granted = IF got THEN @ + 1 ELSE @]
    /\ UNCHANGED << session, now, rec >>

\* a store that keeps what an earlier request of the race stored
RaceSaveFirstWins(p) ==
    /\ req[p].pc = "handled"
    /\ req' = [req EXCEPT ![p].pc = "saved"]
    /\ session' = IF last.writer = 0 THEN req[p].copy ELSE session
    /\ last' = [last EXCEPT !.writer = p]
    /\ UNCHANGED << now, rec >>

\* the request ends: its session is stored, whole
RaceSave(p) ==
    /\ req[p].pc = "handled"
    /\ req' = [req EXCEPT ![p].pc = "saved"]
    /\ session' = req[p].copy
    /\ last' = [last EXCEPT !.writer = p]
    /\ UNCHANGED << now, rec >>

RaceNext ==
    \E p \in Requests :
        \/ RaceOpen(p)
        \/ RaceGetHeaders(p)
        \/ RaceSave(p)

SpecRace == RaceInit /\ [][RaceNext]_vars

\* ------------------------------------------------------- the token claims
GetHeadersOps == {"get_headers", "api_get_headers"}

\* no access token, no expiry, and no refresh token (a key left holding None
\* holds no refresh token)
TokenStateCleared(s) ==
    /\ ~Has(s, "spotify_token")
    /\ ~Truthy(Get(s, "spotify_refresh_token"))
    /\ ~Has(s, "spotify_token_expires_in")

\* the expiry test the operation itself applied to the session it found
WasExpired ==
    IF last.op = "get_headers"
    THEN is_token_expired(last.pre, last.t)
    ELSE api_token_expired(last.pre, last.t)

Granted == last.posts >= 1 /\ last.resp \in Grants
Rejected == last.posts >= 1 /\ last.resp \in Rejections

\* C1: whenever a get_headers call returns headers, the Bearer value is the
\* access token the session holds at that moment, that token is present (never
\* "Bearer None") and it is not expired.
C1_HeadersCarryValidToken ==
    (last.op \in GetHeadersOps /\ last.ret = "headers") =>
        /\ Has(session, "spotify_token")
        /\ Truthy(last.bearer)
        /\ last.bearer = Get(session, "spotify_token")
        /\ ~is_token_expired(session, last.t)

\* C2: a get_headers call that finds an expired access token and a refresh
\* token the provider accepts makes exactly one token-endpoint exchange, stores
\* an expiry later than the time of the call and returns headers carrying the
\* newly issued access token.
C2_ExpiredRefreshedOnce ==
    ( /\ last.op \in GetHeadersOps
      /\ Has(last.pre, "spotify_token")
      /\ WasExpired
      /\ Truthy(Get(last.pre, "spotify_refresh_token"))
      /\ last.resp \in Grants ) =>
        /\ last.posts = 1
        /\ Has(session, "spotify_token_expires_in")
        /\ Get(session, "spotify_token_expires_in") > last.t
        /\ last.ret = "headers"
        /\ last.bearer = last.resp.access_token
        /\ session.spotify_token = Some(last.resp.access_token)

C2_Witness ==
    /\ last.op \in GetHeadersOps
    /\ Has(last.pre, "spotify_token")
    /\ WasExpired
    /\ Truthy(Get(last.pre, "spotify_refresh_token"))
    /\ last.resp \in Grants
    /\ last.resp.access_token # Get(last.pre, "spotify_token")
    /\ last.ret = "headers"

\* C3: a get_headers call on a session that holds no access token returns no
\* headers, makes no network call and leaves the session as it was.
C3_NoTokenNoHeaders ==
    (last.op \in GetHeadersOps /\ ~Has(last.pre, "spotify_token")) =>
        /\ last.ret = "none"
        /\ last.posts = 0
        /\ session = last.pre

C3_Witness ==
    /\ last.op \in GetHeadersOps
    /\ ~Has(last.pre, "spotify_token")
    /\ Has(last.pre, "spotify_refresh_token")
    /\ last.ret = "none"

\* C4: when the provider answers the refresh exchange of a get_headers call
\* with a non-2xx status, the call returns no headers, makes no further
\* exchange, and afterwards access token, refresh token and expiry are all
\* absent from the session.
C4_RejectionClearsTokenState ==
    (last.op \in GetHeadersOps /\ Rejected) =>
        /\ last.ret = "none"
        /\ last.posts = 1
        /\ TokenStateCleared(session)

\* C5: when a get_headers call finds the access token expired and no refresh
\* token held, the refresh step does not contact the token endpoint, and
\* afterwards access token, refresh token and expiry are all absent from the
\* session.
C5_MissingRefreshTokenClears ==
    ( /\ last.op \in GetHeadersOps
      /\ Has(last.pre, "spotify_token")
      /\ WasExpired
      /\ ~Truthy(Get(last.pre, "spotify_refresh_token")) ) =>
        /\ last.posts = 0
        /\ TokenStateCleared(session)

\* C6: after the successful refresh of a get_headers call the stored access token is the returned one,
\* the stored expiry is the time of the call plus the returned lifetime, and
\* the stored refresh token is the returned one when the response carries a
\* refresh_token and the one held before otherwise.
C6_RefreshStoresGrant ==
    (last.op \in GetHeadersOps /\ Granted) =>
        /\ session.spotify_token = Some(last.resp.access_token)
        /\ session.spotify_token_expires_in = Some(last.t + last.resp.expires_in)
        /\ session.spotify_refresh_token =
               IF last.resp.refresh_token # Absent
               THEN last.resp.refresh_token
               ELSE last.pre.spotify_refresh_token

\* C7: in every reachable session state, an access token that is present has
\* an expiry timestamp with it.
C7_TokenHasExpiry ==
    Has(session, "spotify_token") => Has(session, "spotify_token_expires_in")

C7_Witness ==
    /\ Has(session, "spotify_token")
    /\ last.op \in GetHeadersOps
    /\ Granted
    /\ Has(session, "spotify_token_expires_in")

\* C8 as stated: the token counts as expired exactly when now >= expires_at,
\* so a get_headers call made at now = expires_at (with a refresh token held)
\* goes to the token endpoint.
C8_ExpiredFromExpiryInstant ==
    ( /\ last.op \in GetHeadersOps
      /\ Has(last.pre, "spotify_token")
      /\ Has(last.pre, "spotify_token_expires_in")
      /\ Truthy(Get(last.pre, "spotify_refresh_token")) ) =>
        (last.posts >= 1 <=> last.t >= Get(last.pre, "spotify_token_expires_in"))

\* C8 as amended: the token counts as expired exactly when now > expires_at;
\* a get_headers call made at now = expires_at returns the stored token and
\* makes no exchange.
C8_ExpiredStrictlyAfterExpiry ==
    ( /\ last.op \in GetHeadersOps
      /\ Has(last.pre, "spotify_token")
      /\ Has(last.pre, "spotify_token_expires_in")
      /\ Truthy(Get(last.pre, "spotify_refresh_token")) ) =>
        /\ last.posts >= 1 <=> last.t > Get(last.pre, "spotify_token_expires_in")
        /\ last.t = Get(last.pre, "spotify_token_expires_in") =>
               /\ last.ret = "headers"
               /\ last.bearer = Get(last.pre, "spotify_token")
               /\ session = last.pre

C8_Witness ==
    /\ last.op \in GetHeadersOps
    /\ Has(last.pre, "spotify_token")
    /\ Truthy(Get(last.pre, "spotify_refresh_token"))
    /\ last.pre.spotify_token_expires_in = Some(last.t)
    /\ last.ret = "headers"
    /\ last.posts = 0

\* C9: the callback stores tokens only when the state argument it received
\* equals the state the login attempt stored in the session; a callback with a
\* missing or different state leaves the token state as it was.
C9_CallbackVerifiesState ==
    (last.op = "callback" /\ last.ret = "redirect_recommendations") =>
        /\ last.state # Absent
        /\ last.state = last.pre.oauth_state

\* ------------------------------------------------ the recommendation claims
\* C10: the list /api/recommendations returns for a request never contains a
\* track whose id is one of the request's seed ids (the batched track fetch
\* returning the tracks asked for).
C10_NoSeedRecommended ==
    (req.pc = "done" /\ req.status = 200) =>
        \A j \in 1..Len(req.body) : req.body[j] \notin Range(req.seed_tracks)

\* C11: within one request the albums of an artist are listed for at most one
\* of the seeds: two seeds with the same first artist make the request explore
\* that artist once, not once per seed.
C11_ArtistExploredOnce ==
    \A a, b \in 1..max_seed_tracks :
        a # b => req.explored[a] \cap req.explored[b] = {}

\* the provider signalled 429 during the attempt
Signalled429(a) == a.signal429 \/ a.raised = "raise429"

\* C12: when the provider signals 429 during a seed's first attempt and the
\* second attempt succeeds, one backoff sleep of 2 seconds lies between the two
\* attempts and the seed's tracks are in the merged list.
C12_RetryAfter429 ==
    (/\ Len(req.attempts) >= 2
     /\ Signalled429(req.attempts[1])
     /\ req.attempts[2].ret # << >>) =>
        /\ req.attempts[1].slept = initial_retry_delay
        /\ Range(Take(req.attempts[2].ret, per_seed_limit))
               \subseteq Range(req.all_recommendations)

\* an authenticated attempt that failed without any 429: an exception, or an
\* empty result
FailedNot429(a) ==
    /\ a.auth
    /\ ~Signalled429(a)
    /\ a.raised = "raise" \/ (a.raised = "no" /\ a.ret = << >>)

\* C13: a failed attempt that is not a 429 signal is the seed's last attempt.
C13_OtherFailureEndsSeed ==
    \A j \in 1..Len(req.attempts) :
        FailedNot429(req.attempts[j]) => j = Len(req.attempts)

\* the backoff sleeps of the current seed's retry loop, in order
BackoffSleeps ==
    LET Slept(a) == a.slept > 0
        waited == SelectSeq(req.attempts, Slept)
    IN  [j \in 1..Len(waited) |-> waited[j].slept]

\* C14: in every seed's retry loop the first backoff sleep is 2 seconds and
\* the second is 4 seconds, whatever earlier seeds of the request did.
C14_BackoffPerSeed ==
    \A j \in 1..Len(BackoffSleeps) :
        BackoffSleeps[j] = initial_retry_delay * 2^(j - 1)

\* C15: after a non-empty answer of /api/recommendations the session's
\* recommended_tracks are the ids of the tracks in the answer.
C15_LastRecommendedIsResponse ==
    (req.pc = "done" /\ req.status = 200 /\ req.body # << >>) =>
        /\ Has(session, "recommended_tracks")
        /\ Range(Get(session, "recommended_tracks")) = Range(req.body)

\* the request answered with its list of tracks
Answered == req.pc = "done" /\ req.status = 200

\* C16: the list /api/recommendations returns has at most 10 tracks and names
\* no track id twice, whatever batches the seeds' calls returned.
C16_AtMostTenDistinct ==
    Answered =>
        /\ Len(req.body) <= 10
        /\ \A a, b \in 1..Len(req.body) : a # b => req.body[a] # req.body[b]

\* a request answered with 10 tracks out of more than 10 different ones, one
\* of them returned for two seeds
C16_Witness ==
    /\ Answered
    /\ Len(req.body) = 10
    /\ Cardinality(Range(req.all_recommendations)) > 10
    /\ Len(req.all_recommendations) > Cardinality(Range(req.all_recommendations))

\* The reference merge of the batches the seeds' calls returned: the first 4
\* of every batch one after the other, first occurrences only, the first 10.
RECURSIVE FirstFours(_)
FirstFours(batches) ==
    IF batches = << >> THEN << >>
    ELSE SubSeq(Head(batches), 1, IF Len(Head(batches)) < 4
                                  THEN Len(Head(batches)) ELSE 4)
             \o FirstFours(Tail(batches))

ReferenceMerge(batches) ==
    LET cat == FirstFours(batches)
        firsts == {p \in 1..Len(cat) : \A q \in 1..(p - 1) : cat[q] # cat[p]}
        nth(k) == CHOOSE p \in firsts :
                      Cardinality({q \in firsts : q <= p}) = k
        n == IF Cardinality(firsts) < 10 THEN Cardinality(firsts) ELSE 10
    IN  [k \in 1..n |-> cat[nth(k)]]

\* C17: the list /api/recommendations returns is the reference merge of the
\* seeds' successful batches, in seed order.
C17_MergeIsReference ==
    Answered => req.body = ReferenceMerge(req.batches)

\* a request answered after three batches of more than 4 tracks, with a track
\* returned for two seeds and more than 10 different tracks in all
C17_Witness ==
    /\ Answered
    /\ Len(req.batches) = max_seed_tracks
    /\ \A j \in 1..Len(req.batches) : Len(req.batches[j]) > per_seed_limit
    /\ Len(req.all_recommendations) > Cardinality(Range(req.all_recommendations))
    /\ Cardinality(Range(req.all_recommendations)) > response_limit

\* C18: a get_recommendations call fetches only the first 3 of the seed ids it
\* was given: GET /tracks/{id} is sent for no id after the third.
C18_OnlyFirstThreeExplored ==
    \A j \in 1..Len(rec.fetched) :
        rec.fetched[j] \in Range(Take(rec.track_ids, max_seed_tracks))

\* C19: no failed fetch of a seed's track, of an artist's albums or of an
\* album's tracks ends a get_recommendations call with an exception.
C19_FetchFailureSkipped ==
    rec.raised # "no" =>
        rec.raised_at \notin {"track", "albums", "album_tracks"}

\* C20: once get_headers has failed in a get_recommendations call of a
\* request, the request makes no further get_recommendations call and no
\* further token request.
C20_AuthFailureNotRetried ==
    ~req.called_after_auth_failure /\ ~req.posted_after_auth_failure

\* C21: a request none of whose get_recommendations calls could obtain
\* authorization headers is not answered with status 200 and an empty list.
C21_AuthFailureSignalled ==
    (req.pc = "done" /\ req.auth_failed /\ ~req.authenticated) =>
        ~(req.status = 200 /\ req.body = << >>)

\* an access token is held and its expiry, if any, has not passed
LiveToken(s, t) ==
    /\ Has(s, "spotify_token")
    /\ Get(s, "spotify_token") # None
    /\ ~is_token_expired(s, t)
    /\ ~api_token_expired(s, t)

\* C26: from a clear_spotify_tokens until a callback stores tokens again, the
\* session holds no access token, no refresh token and no expiry, and every
\* get_headers call returns no headers and sends no token request.
C26_LoggedOutUntilCallback ==
    last.since_clear =>
        /\ ~Has(session, "spotify_token")
        /\ ~Has(session, "spotify_refresh_token")
        /\ ~Has(session, "spotify_token_expires_in")
        /\ last.op \in GetHeadersOps =>
               (last.ret # "headers" /\ last.posts = 0)

\* a get_headers call made after the tokens of a callback were cleared
C26_Witness ==
    /\ last.since_clear
    /\ last.op \in GetHeadersOps
    /\ last.ret = "none"
    /\ now > 0

\* the requests that found the token expired and sent a refresh request
Refreshers == {p \in Requests : req[p].expired /\ req[p].posts > 0}

PacingWaits ==
    LET IsPacing(w) == w[1] = "pacing"
    IN  SelectSeq(req.waits, IsPacing)

\* the seeds whose processing has begun
SeedsBegun ==
    IF req.pc \in {"call", "wait"} THEN req.i + 1
    ELSE IF req.pc \in {"seed", "done"} THEN req.i
    ELSE 0

\* C25: every pacing sleep lasts 2 seconds, and when the processing of k >= 1
\* seeds has begun k - 1 pacing sleeps have been made, whatever the earlier
\* seeds' calls returned or raised; an answered request with n seeds has made
\* n - 1.
C25_PacingBetweenSeeds ==
    /\ \A j \in 1..Len(PacingWaits) : PacingWaits[j][2] = 2
    /\ SeedsBegun >= 1 => Len(PacingWaits) = SeedsBegun - 1
    /\ (req.pc = "done" /\ req.seed_tracks # << >>) =>
            Len(PacingWaits) = Len(req.seed_tracks) - 1

\* three seeds, the first retried after a 429 and then left without
\* recommendations, and two pacing sleeps
C25_Witness ==
    /\ req.pc = "done"
    /\ Len(req.seed_tracks) = max_seed_tracks
    /\ Len(PacingWaits) = max_seed_tracks - 1
    /\ req.waits[1][1] = "backoff"
    /\ Len(req.batches) < max_seed_tracks
    /\ req.batches # << >>

\* C27: session["top_track_ids"], when set, lists at most 5 track ids.
C27_SeedSetAtMostFive ==
    Has(session, "top_track_ids") =>
        Len(Get(session, "top_track_ids")) <= 5

\* C29: an operation other than the callback, get_headers and clear, run on
\* a session that holds an unexpired access token, leaves the access token,
\* the refresh token and the expiry as they were.
C29_TokenFieldsFramed ==
    (last.op # "init" /\ LiveToken(last.pre, last.t)) =>
        TokenFields(session) = TokenFields(last.pre)

\* get_recommendations stored its tracks in a session whose token is unexpired
C29_Witness ==
    /\ last.op \in {"get_recommendations", "add_recommendations_to_queue"}
    /\ LiveToken(last.pre, last.t)
    /\ session.recommended_tracks # last.pre.recommended_tracks
    /\ TokenFields(session) = TokenFields(last.pre)

PlaylistOps == {"add_to_playlist", "create_playlist_with_tracks"}

\* the requests a playlist build sends to the provider API
PlaylistCalls == {"me", "create_playlist", "add_tracks"}

\* what a playlist build returns or raises when it reports a failure
ValidationErrors == {"ValidationError", "DataProcessingError"}
AuthFailures == {"AuthenticationError"}
ErrorReports == {"raise", "AuthenticationError", "DataProcessingError",
                 "SpotifyAPIError", "ValidationError"}

\* C22: a playlist build from an empty track list, on a session that holds an
\* unexpired token, ends with a validation error and has sent no request to
\* the provider API.
C22_EmptyListRejected ==
    (/\ last.op \in PlaylistOps
     /\ LiveToken(last.pre, last.t)
     /\ last.track_uris = << >>) =>
        /\ last.ret \in ValidationErrors
        /\ Range(last.calls) \cap PlaylistCalls = {}

\* C23: a playlist build whose get_headers returned no headers ends with an
\* authentication failure and has sent no request to the provider API.
C23_NoHeadersNoRequest ==
    (last.op \in PlaylistOps /\ ~last.auth) =>
        /\ last.ret \in AuthFailures
        /\ Range(last.calls) \cap PlaylistCalls = {}

\* C24: a playlist build whose create-playlist or add-tracks request failed
\* reports an error, and sends no request that deletes the playlist.
C24_ProviderFailureReported ==
    (last.op \in PlaylistOps /\ last.failed # {}) =>
        /\ last.ret \in ErrorReports
        /\ "delete_playlist" \notin Range(last.calls)

\* ---------------------------------------------- the candidate pool claims
\* the albums of the artist's log whose fetch ended as kind
AlbumsEnded(kind) == {j \in 1..Len(last.log) : last.log[j] = kind}

\* C31: while and after an artist's albums are fetched, all_track_ids has
\* grown by one id for each album that had tracks and by none for an album
\* without tracks; an album without tracks does not end the call with an
\* exception, and unless a fetch raised every album listed is fetched.
C31_EmptyAlbumSkipped ==
    /\ Len(rec.all_track_ids) = last.base + Cardinality(AlbumsEnded("nonempty"))
    /\ rec.raised # "no" /\ rec.raised_at = "album_tracks" =>
           last.log[Len(last.log)] = "raised"
    /\ rec.raised = "no" /\ rec.pc = "album_tracks" =>
           Len(last.log) + rec.albums_left = last.listed
    /\ rec.raised = "no" /\ rec.pc \in {"track", "batch", "done"} =>
           Len(last.log) = last.listed

\* three albums, the first without tracks, the other two sampled
C31_Witness ==
    /\ rec.pc = "done"
    /\ rec.raised = "no"
    /\ last.log = << "empty", "nonempty", "nonempty" >>
    /\ Len(rec.all_track_ids) = 2

\* all_track_ids without the ids of track_ids, in collection order
FilteredPool ==
    LET NotSeed(id) == \A k \in 1..Len(rec.track_ids) : rec.track_ids[k] # id
    IN  SelectSeq(rec.all_track_ids, NotSeed)

\* C32: the id list of the batched request has at most 10 entries, each an
\* id of all_track_ids and none an id of track_ids; it is the filtered pool
\* itself when that has 10 ids or fewer, and has 10 entries otherwise.
C32_BatchFromFilteredPool ==
    last.asked =>
        /\ Len(last.ids) <= 10
        /\ \A j \in 1..Len(last.ids) :
               /\ \E k \in 1..Len(rec.all_track_ids) :
                      rec.all_track_ids[k] = last.ids[j]
               /\ \A k \in 1..Len(rec.track_ids) :
                      rec.track_ids[k] # last.ids[j]
        /\ Len(FilteredPool) <= 10 => last.ids = FilteredPool
        /\ Len(FilteredPool) > 10 => Len(last.ids) = 10

\* a pool of 12 ids, one of them an id of track_ids: 11 are left, 10 asked
C32_Witness ==
    /\ last.asked
    /\ Len(rec.all_track_ids) = 12
    /\ Len(FilteredPool) = 11
    /\ Len(last.ids) = 10
    /\ last.ids # SubSeq(FilteredPool, 1, 10)

\* ---------------------------------------------------- the request's bounds
\* at most 3 seeds, at most 3 get_recommendations calls and 2 backoff sleeps
\* for a seed, at most 2 pacing sleeps
RequestBounded ==
    /\ Len(req.seed_tracks) <= 3
    /\ req.i <= Len(req.seed_tracks)
    /\ Len(req.attempts) <= 3
    /\ Len(BackoffSleeps) <= 2
    /\ Len(PacingWaits) <= 2

Sent(call) == {j \in 1..Len(last.calls) : last.calls[j] = call}

\* C34: in a playlist build an add-tracks request comes after a
\* create-playlist request that got 201 and names the id of the playlist that
\* request created; after a failed create-playlist request there is no
\* add-tracks request; a profile request comes before both.
C34_BuildOrder ==
    last.op \in PlaylistOps =>
        /\ \A j \in Sent("add_tracks") :
               /\ \E i \in Sent("create_playlist") : i < j
               /\ "create_playlist" \notin last.failed
               /\ last.created # None
               /\ last.target = last.created
        /\ "create_playlist" \in last.failed => Sent("add_tracks") = {}
        /\ \A j \in Sent("create_playlist") \cup Sent("add_tracks") :
               \E i \in Sent("me") : i < j

\* a build that created playlist 2 and added the tracks to it
C34_Witness ==
    /\ last.op \in PlaylistOps
    /\ Sent("add_tracks") # {}
    /\ last.created = 2
    /\ last.target = 2
    /\ last.failed = {}

\* ------------------------------------------------------ the queue's gate
\* C35: add_recommendations_to_queue sends a request to the player queue only
\* when the profile was fetched and says premium, and the session holds an
\* access token.
C35_QueueOnlyForPremium ==
    (last.op = "add_recommendations_to_queue" /\ Sent("queue") # {}) =>
        /\ last.profile = "premium"
        /\ Has(session, "spotify_token")
        /\ Get(session, "spotify_token") # None

\* a premium user's recommendations were sent to the queue, one request each
C35_Witness ==
    /\ last.op = "add_recommendations_to_queue"
    /\ last.profile = "premium"
    /\ Cardinality(Sent("queue")) = per_seed_limit
    /\ last.ret = "redirect_profile"

\* ------------------------------------------------- one session, two logins
\* A browser session through which one account after another logs in. What
\* the provider lists depends on the account the access token was granted
\* for: a track carries the number of the account whose listening it comes
\* from, and so does the user id. The grants outlive the run, so that no
\* request refreshes.
MaxAccounts == 2
Accounts == 1..MaxAccounts

AccountTracks(a) == << a >>

LoginGrant(a) ==
    [kind |-> "http", status |-> 200, json |-> TRUE, access_token |-> a,
     expires_in |-> FarExpiry, refresh_token |-> Some(a)]

\* the hook that runs before every request of app.py; user is the id in the
\* provider's profile
before_request(s, t, o, user) ==
    LET h == api_get_headers(s, t, NoResponse) IN
    IF Has(s, "spotify_token") /\ ~Has(s, "user_id") /\ Accepted(h, o)
    THEN [h.session EXCEPT !.user_id = Some(user)]
    ELSE s

Seeded(s, status, seed_tracks) ==
    [session |-> s, status |-> status, seed_tracks |-> seed_tracks]

\* GET /api/recommendations from entry to return on a session whose token,
\* if any, is unexpired: where the seeds come from, and what the
\* get_recommendations calls for them leave in the session. answered: a call
\* got its batch; a track recommended for a seed carries the seed's number.
get_recommendations_api(s, t, o, items, answered) ==
    LET h == api_get_headers(s, t, NoResponse)
        stored == Has(s, "top_track_ids") /\ Get(s, "top_track_ids") # << >>
        track_ids == IF stored THEN Get(s, "top_track_ids")
                     ELSE Take(items, top_tracks_kept)
        s1 == IF stored THEN s ELSE [s EXCEPT !.top_track_ids = Some(track_ids)]
        seed_tracks == seed_tracks_of(track_ids)
    IN  IF ~Has(s, "spotify_token") THEN Seeded(s, 401, << >>)
        ELSE IF ~stored /\ ~Accepted(h, o) THEN Seeded(s, 500, << >>)
        ELSE IF ~stored /\ items = << >> THEN Seeded(s, 200, << >>)
        ELSE IF answered /\ h.ret = "headers"
        THEN Seeded([s1 EXCEPT !.recommended_tracks = Some(seed_tracks)], 200,
                    seed_tracks)
        ELSE Seeded(s1, 200, seed_tracks)

\* account: the account of the last grant the callback stored; served: the
\* account data the operation returned or worked with; phase: "cleared" once
\* clear_spotify_tokens has run, "again" once a callback has stored a grant
\* after that
LoginRecord(op, account, served, phase) ==
    [op |-> op, account |-> account, served |-> served, phase |-> phase]

LoginInit ==
    /\ session = EmptySession
    /\ now = RequestTime
    /\ last = LoginRecord("init", None, << >>, "first")
    /\ req = IdleReq
    /\ rec = IdleRec

LoginCallback ==
    \E a \in Accounts : \E resp \in {LoginGrant(a)} \cup Rejections :
        LET r == callback(session, now, 1, resp) IN
        /\ session' = r.session
        /\ last' = IF ExchangeSucceeded("callback", r)
                   THEN LoginRecord("callback", a, << >>,
                                    IF last.phase = "first" THEN "first"
                                    ELSE "again")
                   ELSE LoginRecord("callback", last.account, << >>,
                                    last.phase)
        /\ UNCHANGED << now, req, rec >>

LoginClear ==
    /\ session' = clear_spotify_tokens(session)
    /\ last' = LoginRecord("clear_spotify_tokens", last.account, << >>, "cleared")
    /\ UNCHANGED << now, req, rec >>

LoginBeforeRequest ==
    \E o \in {"ok", "status"} :
        /\ session' = before_request(session, now, o, last.account)
        /\ last' = LoginRecord("before_request", last.account,
                               IF Has(session', "user_id")
                               THEN << Get(session', "user_id") >> ELSE << >>,
                               last.phase)
        /\ UNCHANGED << now, req, rec >>

LoginTopTracks ==
    \E o \in {"ok", "status"} :
        LET g == get_top_tracks(session, now, NoResponse, o,
                                AccountTracks(last.account)) IN
        /\ session' = g.session
        /\ last' = LoginRecord("get_top_tracks", last.account, g.top_tracks,
                               last.phase)
        /\ UNCHANGED << now, req, rec >>

LoginRecommendationsPage ==
    \E o \in {"ok", "status"}, premium \in BOOLEAN :
        LET d == spotify_recommendations(session, now, NoResponse, NoResponse,
                                         o, AccountTracks(last.account), "ok",
                                         premium) IN
        /\ session' = d.session
        /\ last' = LoginRecord("spotify_recommendations", last.account,
                               IF d.ret = "render"
                               THEN Get(d.session, "top_track_ids") ELSE << >>,
                               last.phase)
        /\ UNCHANGED << now, req, rec >>

LoginApiRecommendations ==
    \E o \in {"ok", "status"}, answered \in BOOLEAN :
        LET d == get_recommendations_api(session, now, o,
                                         AccountTracks(last.account), answered) IN
        /\ session' = d.session
        /\ last' = LoginRecord("get_recommendations_api", last.account,
                               d.seed_tracks, last.phase)
        /\ UNCHANGED << now, req, rec >>

LoginAddToPlaylist ==
    \E o_add \in {"ok", "status"}, id \in PlaylistIds :
        LET d == add_to_playlist(session, now, NoResponse, "ok", "ok", "ok",
                                 o_add, id) IN
        /\ session' = d.session
        /\ last' = LoginRecord("add_to_playlist", last.account,
                               IF d.target # None
                               THEN recommended_track_ids(session) ELSE << >>,
                               last.phase)
        /\ UNCHANGED << now, req, rec >>

LoginNext ==
    \/ LoginCallback
    \/ LoginClear
    \/ LoginBeforeRequest
    \/ LoginTopTracks
    \/ LoginRecommendationsPage
    \/ LoginApiRecommendations
    \/ LoginAddToPlaylist

SpecLogin == LoginInit /\ [][LoginNext]_vars

\* C36: after clear_spotify_tokens followed by a successful callback, the
\* account data an operation returns or works with (top tracks, seed track
\* ids, recommended tracks, user id) was fetched for the account logged in.
C36_DataOfThisLogin ==
    last.phase = "again" =>
        \A j \in 1..Len(last.served) : last.served[j] = last.account

\* ------------------------------------------------- the cache of top tracks
\* spotify.get_top_tracks called again and again while time passes, on
\* sessions with no token, an expired or an unexpired one, with and without a
\* refresh token, and with no cache
\* or one written at either side of the hour before the first call.
CacheTrackLists == {<< >>, << 1 >>, << 2 >>}

CacheSessions ==
    { [s EXCEPT !.cached_top_tracks = c[1], !.cached_top_tracks_time = c[2]] :
        s \in {EmptySession} \cup
              { [EmptySession EXCEPT !.spotify_token = Some(1),
                                     !.spotify_refresh_token = Some(r),
                                     !.spotify_token_expires_in = Some(e)] :
                  r \in {None, 1}, e \in {RequestTime - 1, FarExpiry} },
        c \in {<< Absent, Absent >>}
                \cup {<< Some(<< 1 >>), Some(RequestTime - age) >> :
                         age \in {1, top_tracks_cache_ttl - 1,
                                  top_tracks_cache_ttl} } }

CacheFields(s) == << s.cached_top_tracks, s.cached_top_tracks_time >>

\* the call just made: the session and time it found, what its get_headers
\* returned, how the top-tracks request ended and what it listed, whether the
\* request was sent, and the tracks returned
CacheRecord(op, g, h, o, items) ==
    [op |-> op, pre |-> session, t |-> now, headers |-> h.ret,
     bearer |-> h.bearer, o |-> o, items |-> items, ret |-> g.ret,
     asked |-> g.asked, top_tracks |-> g.top_tracks]

CacheInit ==
    /\ session \in CacheSessions
    /\ now = RequestTime
    /\ last = [op |-> "init", pre |-> session, t |-> now, headers |-> "none",
               bearer |-> None, o |-> "ok", items |-> << >>, ret |-> "ok",
               asked |-> FALSE, top_tracks |-> << >>]
    /\ req = IdleReq
    /\ rec = IdleRec

CacheTick ==
    /\ now < MaxTime
    /\ now' = now + 1
    /\ UNCHANGED << session, last, req, rec >>

CacheGetTopTracks ==
    \E resp \in RefreshAnswers(session, RequestTokenResponses),
       o \in GetOutcomes, items \in CacheTrackLists :
        LET g == get_top_tracks(session, now, resp, o, items)
            h == get_headers(session, now, resp)
        IN  /\ session' = g.session
            /\ last' = CacheRecord("get_top_tracks", g, h, o, items)
    /\ UNCHANGED << now, req, rec >>

CacheNext ==
    \/ CacheTick
    \/ CacheGetTopTracks

SpecCache == CacheInit /\ [][CacheNext]_vars

\* the cache entry the call found was less than 3600 seconds old
FoundFresh ==
    /\ Has(last.pre, "cached_top_tracks")
    /\ Has(last.pre, "cached_top_tracks_time")
    /\ last.t - Get(last.pre, "cached_top_tracks_time") < 3600

\* C37: spotify.get_top_tracks returns tracks without a top-tracks request only
\* when it got headers and found a cache entry less than 3600 seconds old, and
\* these tracks are the cached ones; with headers and such an entry it sends
\* no request; and it changes the cache or its timestamp only when the request
\* was sent and answered 200, to the tracks listed and the time of the call.
C37_CacheDiscipline ==
    last.op = "get_top_tracks" =>
        /\ (~last.asked /\ last.top_tracks # << >>) =>
               /\ last.headers = "headers"
               /\ FoundFresh
               /\ last.top_tracks = Get(last.pre, "cached_top_tracks")
        /\ (last.headers = "headers" /\ FoundFresh) => ~last.asked
        /\ CacheFields(session) # CacheFields(last.pre) =>
               /\ last.asked
               /\ last.o = "ok"
               /\ CacheFields(session) = << Some(last.items), Some(last.t) >>

\* a call that found an entry one second short of the hour served it, and a
\* later call, the entry now an hour old, asked the provider and was refused:
\* the entry and its timestamp are still there
C37_Witness ==
    /\ last.op = "get_top_tracks"
    /\ last.asked
    /\ last.o \in NotOk
    /\ Has(last.pre, "cached_top_tracks")
    /\ last.t - Get(last.pre, "cached_top_tracks_time") = 3600
    /\ last.t > RequestTime
    /\ CacheFields(session) = CacheFields(last.pre)

\* C38: when the refresh request of spotify_api.get_headers fails without a
\* response, get_headers returns None, the access token, the refresh token and
\* the expiry stay as they were, and a call made then or later sends the
\* refresh request again.
C38_TransportFailureKeepsTokens ==
    (last.op = "api_get_headers" /\ last.posts = 1
        /\ last.resp.kind = "transport") =>
        /\ last.ret = "none"
        /\ TokenFields(session) = TokenFields(last.pre)
        /\ \A resp \in TokenResponses :
               api_get_headers(session, now, resp).posts = 1

\* the refresh failed without a response, and time has passed since
C38_Witness ==
    /\ last.op = "api_get_headers"
    /\ last.posts = 1
    /\ last.resp.kind = "transport"
    /\ now > last.t

\* the callback's exchange was answered, with a status other than 200
ExchangeRefused ==
    last.posts = 1 /\ last.resp.kind = "http" /\ last.resp.status # 200

\* C39: a callback without a code, or whose exchange is answered with a status
\* other than 200, leaves the access token, the refresh token and the expiry
\* as they were; a callback that changes any of them had a code and a 200
\* answer, and then the session holds the three values of that answer.
C39_CallbackFrame ==
    last.op = "callback" =>
        /\ (last.code = None \/ ExchangeRefused) =>
               TokenFields(session) = TokenFields(last.pre)
        /\ TokenFields(session) # TokenFields(last.pre) =>
               /\ last.code # None
               /\ last.posts = 1
               /\ last.resp.status = 200
               /\ TokenFields(session) =
                      << Some(last.resp.access_token),
                         Some(ResponseRefreshToken(last.resp)),
                         Some(last.t + last.resp.expires_in) >>

\* a callback refused with 400 on a session that holds tokens
C39_Witness ==
    /\ last.op = "callback"
    /\ ExchangeRefused
    /\ LiveToken(last.pre, last.t)

====
